---- MODULE Spec2Model ----
(***************************************************************************)
(* Model of supabase_setup.py: SupabaseProjectGenerator.                   *)
(*                                                                         *)
(* Two invocations of the generator target the same project path on one    *)
(* host.  The host is the set of listening TCP ports, the part of the      *)
(* filesystem under the project path, the lines waiting on each            *)
(* invocation's standard input and the values random.randint hands out.    *)
(*                                                                         *)
(* Text is a sequence of tokens.  "\r" and "\n" are the two line           *)
(* terminator characters; every other token is a piece of text that        *)
(* contains neither of them.  Bytes written with write_bytes are the       *)
(* tokens themselves (the content is ASCII, so utf-8 encodes each          *)
(* character as its own byte).                                             *)
(***************************************************************************)
EXTENDS Integers, Sequences, FiniteSets, TLC

CR == "\r"
LF == "\n"

(***************************************************************************)
(* Bounds of the model.                                                    *)
(***************************************************************************)
\* the largest number of listening ports on the modelled host
MaxOccupied == 2

Invocations == {1, 2}

(***************************************************************************)
(* Program constants.                                                      *)
(***************************************************************************)
\* random.randint(3000, 9000)
SeedLow == 3000
SeedHigh == 9000
\* offsets of _calculate_ports
KongHttpsOffset == 443
PostgresOffset == 1000
PoolerOffset == 1001
StudioOffset == 2000
AnalyticsOffset == 3000
\* socket.connect_ex accepts ports 0-65535 and raises OverflowError otherwise
MaxPort == 65535
\* base_port=None
NoPort == -1

ServiceOrder ==
  <<"kong_http", "kong_https", "postgres", "pooler", "studio", "analytics">>

Services == {ServiceOrder[k] : k \in 1..6}

\* the offsets with the analytics target on the studio target
OffsetAnalyticsOnStudio ==
  <<0, KongHttpsOffset, PostgresOffset, PoolerOffset, StudioOffset, StudioOffset>>

\* the target of each service is base_port plus its offset
Offset ==
  <<0, KongHttpsOffset, PostgresOffset, PoolerOffset, StudioOffset, AnalyticsOffset>>

(***************************************************************************)
(* Python str operations on token sequences.                               *)
(***************************************************************************)
\* s[k:k+len(t)] == t
MatchAt(s, t, k) ==
  /\ k + Len(t) - 1 <= Len(s)
  /\ \A j \in 1..Len(t) : s[k + j - 1] = t[j]

\* t in s
Contains(s, t) == \E k \in 1..(Len(s) + 1) : MatchAt(s, t, k)

\* the least element of a non-empty set of integers
Least(S) == CHOOSE k \in S : \A j \in S : k <= j

\* of a non-empty set S of integers, the least element from mid on, or the
\* greatest element when there is none from mid on
NearMiddle(S, mid) ==
  LET right == {j \in S : j >= mid}
  IN IF right # {} THEN Least(right) ELSE 0 - Least({0 - j : j \in S})

RECURSIVE ReplaceIn(_, _, _, _, _)
\* s[lo..hi].replace(old, new), old not empty.  str.replace takes the
\* leftmost occurrence and goes on after it, so the occurrences it replaces
\* do not overlap; an occurrence that no occurrence overlaps from the left is
\* one of them, and the text is replaced on its two sides separately
ReplaceIn(s, old, new, lo, hi) ==
  LET at == {j \in lo..(hi - Len(old) + 1) : MatchAt(s, old, j)}
      taken == {j \in at : \A d \in 1..(Len(old) - 1) : (j - d) \notin at}
      m == NearMiddle(taken, (lo + hi) \div 2)
  IN IF at = {} THEN SubSeq(s, lo, hi)
     ELSE ReplaceIn(s, old, new, lo, m - 1) \o new
            \o ReplaceIn(s, old, new, m + Len(old), hi)

\* s.replace(old, new)
Replace(s, old, new) == ReplaceIn(s, old, new, 1, Len(s))

\* the characters that end a line for str.splitlines(): LF, CR, VT, FF, FS,
\* GS, RS, NEL, LINE SEPARATOR and PARAGRAPH SEPARATOR.  A character above
\* U+00FF is written as the token that names its code point.
LineEnds ==
  {LF, CR, "", "\f", "", "", "", "", "U+2028", "U+2029"}

\* characters str.strip() removes: those str.isspace() accepts, which are the
\* line ends, the space, the tab, US, NBSP and the other Unicode spaces
Whitespace ==
  LineEnds \cup {" ", "\t", "", " "}
    \cup {"U+1680", "U+2000", "U+2001", "U+2002", "U+2003", "U+2004", "U+2005",
          "U+2006", "U+2007", "U+2008", "U+2009", "U+200A", "U+202F", "U+205F",
          "U+3000"}

RECURSIVE LStrip(_)
LStrip(s) ==
  IF s # <<>> /\ s[1] \in Whitespace THEN LStrip(Tail(s)) ELSE s

RECURSIVE RStrip(_)
RStrip(s) ==
  IF s # <<>> /\ s[Len(s)] \in Whitespace
  THEN RStrip(SubSeq(s, 1, Len(s) - 1))
  ELSE s

\* s.strip()
Strip(s) == RStrip(LStrip(s))

\* c.upper() for one character of the answers the model types
UpperChar(c) ==
  CASE c = "y" -> "Y"
    [] c = "n" -> "N"
    [] OTHER -> c

\* s.upper()
Upper(s) == [k \in 1..Len(s) |-> UpperChar(s[k])]

\* s.endswith(t)
EndsWith(s, t) == Len(t) <= Len(s) /\ MatchAt(s, t, Len(s) - Len(t) + 1)

DigitChar == <<"0", "1", "2", "3", "4", "5", "6", "7", "8", "9">>

RECURSIVE Digits(_)
\* str(n) of the f-strings, n >= 0, one token per decimal digit
Digits(n) ==
  IF n < 10 THEN <<DigitChar[n + 1]>>
  ELSE Digits(n \div 10) \o <<DigitChar[(n % 10) + 1]>>

\* what a text-mode read (newline=None) returns: "\r\n" and "\r" become "\n"
UniversalNewlines(s) ==
  LET t == Replace(s, <<CR, LF>>, <<LF>>)
  IN [k \in 1..Len(t) |-> IF t[k] = CR THEN LF ELSE t[k]]

\* what a text-mode write (newline=None) puts on disk: "\n" becomes os.linesep
TextModeBytes(s, linesep) == Replace(s, <<LF>>, linesep)

\* number of CR LF pairs in s
CrLfAt(s) == {k \in 1..(Len(s) - 1) : s[k] = CR /\ s[k + 1] = LF}

(***************************************************************************)
(* The filesystem under the project path.  "." is the project directory.   *)
(***************************************************************************)
SubDirs ==
  <<"volumes/api", "volumes/db/data", "volumes/functions", "volumes/logs",
    "volumes/pooler", "volumes/storage", "volumes/analytics", "volumes/db">>

MainDir == "volumes/functions/main"
IndexTs == "volumes/functions/main/index.ts"
ComposeYml == "docker-compose.yml"
EnvFile == ".env"
KongYml == "volumes/api/kong.yml"
OverrideYml == "docker-compose.override.yml"
VectorYml == "volumes/logs/vector.yml"
PoolerExs == "volumes/pooler/pooler.exs"

SqlPaths ==
  <<"volumes/db/_supabase.sql", "volumes/db/logs.sql", "volumes/db/jwt.sql",
    "volumes/db/pooler.sql", "volumes/db/realtime.sql", "volumes/db/roles.sql",
    "volumes/db/webhooks.sql">>

SqlKeys ==
  <<"supabase_sql", "logs_sql", "jwt_sql", "pooler_sql", "realtime_sql",
    "roles_sql", "webhooks_sql">>

DirPaths == {".", "volumes", MainDir} \cup {SubDirs[k] : k \in 1..Len(SubDirs)}

FilePaths ==
  {ComposeYml, EnvFile, KongYml, OverrideYml, VectorYml, PoolerExs, IndexTs,
   "reset.sh", "README.md"} \cup {SqlPaths[k] : k \in 1..Len(SqlPaths)}

Paths == DirPaths \cup FilePaths

\* Path.parent
Parent(p) ==
  CASE p \in {"volumes", ComposeYml, EnvFile, OverrideYml, "reset.sh", "README.md"} -> "."
    [] p \in {"volumes/api", "volumes/db", "volumes/functions", "volumes/logs",
              "volumes/pooler", "volumes/storage", "volumes/analytics"} -> "volumes"
    [] p = "volumes/db/data" \/ p \in {SqlPaths[k] : k \in 1..Len(SqlPaths)} -> "volumes/db"
    [] p = MainDir -> "volumes/functions"
    [] p = IndexTs -> MainDir
    [] p = KongYml -> "volumes/api"
    [] p = VectorYml -> "volumes/logs"
    [] p = PoolerExs -> "volumes/pooler"
    [] OTHER -> "."

RECURSIVE Ancestors(_)
\* the directories between the project directory and p, both ends included
\* except p itself
Ancestors(p) == IF p = "." THEN {} ELSE {Parent(p)} \cup Ancestors(Parent(p))

Absent == [kind |-> "absent", content |-> <<>>]
Dir == [kind |-> "dir", content |-> <<>>]
File(c) == [kind |-> "file", content |-> c]

\* a path component that is not a directory makes every lookup below it fail
Reachable(f, p) == \A a \in Ancestors(p) : f[a].kind = "dir"

\* Path.exists(): False also when the lookup fails
PathExists(f, p) == Reachable(f, p) /\ f[p].kind # "absent"

\* Path.is_dir()
IsDir(f, p) == Reachable(f, p) /\ f[p].kind = "dir"

\* the outcome of a filesystem call: the exception raised, the filesystem
\* after it, and the changes it made
Ok(f, ops) == [err |-> "none", fs |-> f, ops |-> ops]
Raise(e, f) == [err |-> e, fs |-> f, ops |-> <<>>]

\* a change of the filesystem
Op(name, p) == [op |-> name, path |-> p]

\* the error of a lookup of p that cannot reach p's parent
LookupError(f, p) ==
  IF \E a \in Ancestors(p) : f[a].kind = "file" /\ Reachable(f, a)
  THEN "NotADirectoryError"
  ELSE "FileNotFoundError"

\* Path.mkdir(parents=True, exist_ok=exist_ok)
Mkdir(f, p, exist_ok) ==
  IF \E a \in Ancestors(p) : f[a].kind = "file"
  THEN Raise("NotADirectoryError", f)
  ELSE IF f[p].kind # "absent"
       THEN IF exist_ok /\ f[p].kind = "dir"
            THEN Ok(f, <<>>)
            ELSE Raise("FileExistsError", f)
       ELSE Ok([q \in Paths |->
                  IF q = p \/ (q \in Ancestors(p) /\ f[q].kind = "absent")
                  THEN Dir ELSE f[q]],
               <<Op("mkdir", p)>>)

\* Path.unlink() of a path that exists and is no directory
Unlink(f, p) == [f EXCEPT ![p] = Absent]

\* open(p, "w") followed by a write of bytes b
WriteFile(f, p, b) ==
  IF ~Reachable(f, p) THEN Raise(LookupError(f, p), f)
  ELSE IF f[p].kind = "dir" THEN Raise("IsADirectoryError", f)
  ELSE Ok([f EXCEPT ![p] = File(b)], <<Op("write", p)>>)

(***************************************************************************)
(* The templates.  A template is its lines joined by "\n"; the lines kept  *)
(* are the ones that carry a substituted value, a service name or the      *)
(* realtime health check, in the order of the source.                      *)
(***************************************************************************)
RECURSIVE JoinLines(_)
\* the text of a triple-quoted literal, given line by line
JoinLines(ls) ==
  IF ls = <<>> THEN <<>>
  ELSE IF Len(ls) = 1 THEN ls[1]
  ELSE LET h == Len(ls) \div 2
       IN JoinLines(SubSeq(ls, 1, h)) \o <<LF>> \o JoinLines(SubSeq(ls, h + 1, Len(ls)))

\* the lines of a text that substitutes nothing, one token per line
Plain(ls) == JoinLines([k \in 1..Len(ls) |-> <<ls[k]>>])

\* string.ascii_letters + string.digits
Alphabet ==
  {"a", "b", "c", "d", "e", "f", "g", "h", "i", "j", "k", "l", "m", "n", "o",
   "p", "q", "r", "s", "t", "u", "v", "w", "x", "y", "z",
   "A", "B", "C", "D", "E", "F", "G", "H", "I", "J", "K", "L", "M", "N", "O",
   "P", "Q", "R", "S", "T", "U", "V", "W", "X", "Y", "Z",
   "0", "1", "2", "3", "4", "5", "6", "7", "8", "9"}

\* a secret that is one character short
RandomChoicesShort(k, c) == [j \in 1..(k - 1) |-> c]

\* ''.join(random.choices(string.ascii_letters + string.digits, k=k)),
\* every draw giving the character c
RandomChoices(k, c) == [j \in 1..k |-> c]

PasswordLen == 32
JwtSecretLen == 48
SecretKeyBaseLen == 64
VaultEncKeyLen == 32
LogflareKeyLen == 32

AnonKeyDemo ==
  "eyJhbGciOiJIUzI1NiIsInR5cCI6IkpXVCJ9.eyAgCiAgICAicm9sZSI6ICJhbm9uIiwKICAgICJpc3MiOiAic3VwYWJhc2UtZGVtbyIsCiAgICAiaWF0IjogMTY0MTc2OTIwMCwKICAgICJleHAiOiAxNzk5NTM1NjAwCn0.dc_X5iR_VP_qT0zsiyj_I_OZ2T9FtRU2BBNWN8Bu4GE"
ServiceRoleKeyDemo ==
  "eyJhbGciOiJIUzI1NiIsInR5cCI6IkpXVCJ9.eyAgCiAgICAicm9sZSI6ICJzZXJ2aWNlX3JvbGUiLAogICAgImlzcyI6ICJzdXBhYmFzZS1kZW1vIiwKICAgICJpYXQiOiAxNjQxNzY5MjAwLAogICAgImV4cCI6IDE3OTk1MzU2MDAKfQ.DaYlNEoUrrEn2Ig7tqibS-PHK5vgusbcbo7X36XVt4Q"

\* old_healthcheck of _fix_realtime_healthcheck
OldHealthcheck ==
  Plain(<<"    healthcheck:",
          "      test:",
          "        [",
          "          \"CMD\",",
          "          \"curl\",",
          "          \"-sSfL\",",
          "          \"--head\",",
          "          \"-o\",",
          "          \"/dev/null\",",
          "          \"-H\",",
          "          \"Authorization: Bearer ${ANON_KEY}\",",
          "          \"http://localhost:4000/api/tenants/realtime-dev/health\"",
          "        ]">>)

\* new_healthcheck of _fix_realtime_healthcheck
NewHealthcheck ==
  Plain(<<"    healthcheck:",
          "      test:",
          "        [",
          "          \"CMD-SHELL\",",
          "          \"curl -sSfL http://localhost:4000/status\"",
          "        ]">>)

\* a "container_name:" line of docker-compose.yml
ContainerName(pn, prefix, service) ==
  <<"    container_name: ", prefix>> \o pn \o <<"-", service>>

\* a port line that publishes the container port as the host port
PortLineInner(port, inner) == <<"      - \"", inner, ":", inner, "\"">>

\* a published port line of docker-compose.yml
PortLine(port, inner) == <<"      - \"">> \o Digits(port) \o <<":", inner, "\"">>

\* self.templates["docker_compose"]: of each service the container name, the
\* published ports and, for every variable referenced as ${NAME}, the first
\* line of the manifest that references it; the health check of realtime,
\* which references ${ANON_KEY} once more, is kept line by line
DockerComposeTemplate(pn, pt) ==
  JoinLines(<<
    <<>>,
    <<"name: ">> \o pn,
    <<>>,
    <<"services:">>,
    <<"  studio:">>,
    ContainerName(pn, "", "studio"),
    PortLine(pt["studio"], "3000"),
    <<"      POSTGRES_PASSWORD: ", "${", "POSTGRES_PASSWORD", "}">>,
    <<"      DEFAULT_ORGANIZATION_NAME: ", "${", "STUDIO_DEFAULT_ORGANIZATION", "}">>,
    <<"      DEFAULT_PROJECT_NAME: ", "${", "STUDIO_DEFAULT_PROJECT", "}">>,
    <<"      SUPABASE_PUBLIC_URL: ", "${", "SUPABASE_PUBLIC_URL", "}">>,
    <<"      SUPABASE_ANON_KEY: ", "${", "ANON_KEY", "}">>,
    <<"      SUPABASE_SERVICE_KEY: ", "${", "SERVICE_ROLE_KEY", "}">>,
    <<"      AUTH_JWT_SECRET: ", "${", "JWT_SECRET", "}">>,
    <<"      LOGFLARE_API_KEY: ", "${", "LOGFLARE_API_KEY", "}">>,
    <<"  kong:">>,
    ContainerName(pn, "", "kong"),
    PortLine(pt["kong_http"], "8000/tcp"),
    PortLine(pt["kong_https"], "8443/tcp"),
    <<"      DASHBOARD_USERNAME: ", "${", "DASHBOARD_USERNAME", "}">>,
    <<"      DASHBOARD_PASSWORD: ", "${", "DASHBOARD_PASSWORD", "}">>,
    <<"  auth:">>,
    ContainerName(pn, "", "auth"),
    <<"      API_EXTERNAL_URL: ", "${", "API_EXTERNAL_URL", "}">>,
    <<"      GOTRUE_DB_DATABASE_URL: postgres://supabase_auth_admin:",
      "${", "POSTGRES_PASSWORD", "}", "@", "${", "POSTGRES_HOST", "}", ":5432/", "${", "POSTGRES_DB", "}">>,
    <<"      GOTRUE_SITE_URL: ", "${", "SITE_URL", "}">>,
    <<"      GOTRUE_URI_ALLOW_LIST: ", "${", "ADDITIONAL_REDIRECT_URLS", "}">>,
    <<"      GOTRUE_DISABLE_SIGNUP: ", "${", "DISABLE_SIGNUP", "}">>,
    <<"      GOTRUE_JWT_EXP: ", "${", "JWT_EXPIRY", "}">>,
    <<"      GOTRUE_EXTERNAL_EMAIL_ENABLED: ", "${", "ENABLE_EMAIL_SIGNUP", "}">>,
    <<"      GOTRUE_EXTERNAL_ANONYMOUS_USERS_ENABLED: ", "${", "ENABLE_ANONYMOUS_USERS", "}">>,
    <<"      GOTRUE_MAILER_AUTOCONFIRM: ", "${", "ENABLE_EMAIL_AUTOCONFIRM", "}">>,
    <<"      GOTRUE_SMTP_ADMIN_EMAIL: ", "${", "SMTP_ADMIN_EMAIL", "}">>,
    <<"      GOTRUE_SMTP_HOST: ", "${", "SMTP_HOST", "}">>,
    <<"      GOTRUE_SMTP_PORT: ", "${", "SMTP_PORT", "}">>,
    <<"      GOTRUE_SMTP_USER: ", "${", "SMTP_USER", "}">>,
    <<"      GOTRUE_SMTP_PASS: ", "${", "SMTP_PASS", "}">>,
    <<"      GOTRUE_SMTP_SENDER_NAME: ", "${", "SMTP_SENDER_NAME", "}">>,
    <<"      GOTRUE_MAILER_URLPATHS_INVITE: ", "${", "MAILER_URLPATHS_INVITE", "}">>,
    <<"      GOTRUE_MAILER_URLPATHS_CONFIRMATION: ", "${", "MAILER_URLPATHS_CONFIRMATION", "}">>,
    <<"      GOTRUE_MAILER_URLPATHS_RECOVERY: ", "${", "MAILER_URLPATHS_RECOVERY", "}">>,
    <<"      GOTRUE_MAILER_URLPATHS_EMAIL_CHANGE: ", "${", "MAILER_URLPATHS_EMAIL_CHANGE", "}">>,
    <<"      GOTRUE_EXTERNAL_PHONE_ENABLED: ", "${", "ENABLE_PHONE_SIGNUP", "}">>,
    <<"      GOTRUE_SMS_AUTOCONFIRM: ", "${", "ENABLE_PHONE_AUTOCONFIRM", "}">>,
    <<"  rest:">>,
    ContainerName(pn, "", "rest"),
    <<"      PGRST_DB_SCHEMAS: ", "${", "PGRST_DB_SCHEMAS", "}">>,
    <<"  realtime:">>,
    ContainerName(pn, "realtime-dev.", "realtime"),
    <<"    healthcheck:">>,
    <<"      test:">>,
    <<"        [">>,
    <<"          \"CMD\",">>,
    <<"          \"curl\",">>,
    <<"          \"-sSfL\",">>,
    <<"          \"--head\",">>,
    <<"          \"-o\",">>,
    <<"          \"/dev/null\",">>,
    <<"          \"-H\",">>,
    <<"          \"Authorization: Bearer ${ANON_KEY}\",">>,
    <<"          \"http://localhost:4000/api/tenants/realtime-dev/health\"">>,
    <<"        ]">>,
    <<"      timeout: 5s">>,
    <<"      SECRET_KEY_BASE: ", "${", "SECRET_KEY_BASE", "}">>,
    <<"  storage:">>,
    ContainerName(pn, "", "storage"),
    <<"  imgproxy:">>,
    ContainerName(pn, "", "imgproxy"),
    <<"      IMGPROXY_ENABLE_WEBP_DETECTION: ", "${", "IMGPROXY_ENABLE_WEBP_DETECTION", "}">>,
    <<"  meta:">>,
    ContainerName(pn, "", "meta"),
    <<"  functions:">>,
    ContainerName(pn, "", "edge-functions"),
    <<"      VERIFY_JWT: \"", "${", "FUNCTIONS_VERIFY_JWT", "}", "\"">>,
    <<"  analytics:">>,
    ContainerName(pn, "", "analytics"),
    PortLine(pt["analytics"], "4000"),
    <<"  db:">>,
    ContainerName(pn, "", "db"),
    PortLine(pt["postgres"], "5432"),
    <<"  vector:">>,
    ContainerName(pn, "", "vector"),
    <<"  pooler:">>,
    ContainerName(pn, "", "pooler"),
    PortLine(pt["pooler"], "6543"),
    <<"      VAULT_ENC_KEY: ", "${", "VAULT_ENC_KEY", "}">>,
    <<"      POOLER_TENANT_ID: ", "${", "POOLER_TENANT_ID", "}">>,
    <<"      POOLER_DEFAULT_POOL_SIZE: ", "${", "POOLER_DEFAULT_POOL_SIZE", "}">>,
    <<"      POOLER_MAX_CLIENT_CONN: ", "${", "POOLER_MAX_CLIENT_CONN", "}">>,
    <<"networks:">>,
    <<"  default:">>,
    <<"    name: ">> \o pn \o <<"-network">>,
    <<>> >>)

\* a line of .env written as "KEY: value"
EnvLineColon(key, value) == <<key, ": ">> \o value

\* a KEY=value line of .env
EnvLine(key, value) == <<key, "=">> \o value

\* self.templates["env"]
EnvTemplate(pn, pt, c) ==
  JoinLines(<<
    <<"############">>,
    EnvLine("POSTGRES_PASSWORD", RandomChoices(PasswordLen, c)),
    EnvLine("JWT_SECRET", RandomChoices(JwtSecretLen, c)),
    EnvLine("ANON_KEY", <<AnonKeyDemo>>),
    EnvLine("SERVICE_ROLE_KEY", <<ServiceRoleKeyDemo>>),
    EnvLine("DASHBOARD_USERNAME", <<"supabase">>),
    EnvLine("DASHBOARD_PASSWORD", pn),
    EnvLine("SECRET_KEY_BASE", RandomChoices(SecretKeyBaseLen, c)),
    EnvLine("VAULT_ENC_KEY", RandomChoices(VaultEncKeyLen, c)),
    EnvLine("POSTGRES_HOST", pn \o <<"-", "db">>),
    EnvLine("POSTGRES_DB", <<"postgres">>),
    EnvLine("POSTGRES_PORT", Digits(pt["postgres"])),
    EnvLine("POOLER_PROXY_PORT_TRANSACTION", Digits(pt["pooler"])),
    EnvLine("POOLER_DEFAULT_POOL_SIZE", <<"20">>),
    EnvLine("POOLER_MAX_CLIENT_CONN", <<"100">>),
    EnvLine("POOLER_TENANT_ID", <<"your-tenant-id">>),
    EnvLine("KONG_HTTP_PORT", Digits(pt["kong_http"])),
    EnvLine("KONG_HTTPS_PORT", Digits(pt["kong_https"])),
    EnvLine("PGRST_DB_SCHEMAS", <<"public,storage,graphql_public">>),
    EnvLine("SITE_URL", <<"http://localhost:">> \o Digits(pt["studio"])),
    EnvLine("ADDITIONAL_REDIRECT_URLS", <<>>),
    EnvLine("JWT_EXPIRY", <<"3600">>),
    EnvLine("DISABLE_SIGNUP", <<"false">>),
    EnvLine("API_EXTERNAL_URL", <<"http://localhost:">> \o Digits(pt["kong_http"])),
    EnvLine("MAILER_URLPATHS_CONFIRMATION", <<"\"/auth/v1/verify\"">>),
    EnvLine("MAILER_URLPATHS_INVITE", <<"\"/auth/v1/verify\"">>),
    EnvLine("MAILER_URLPATHS_RECOVERY", <<"\"/auth/v1/verify\"">>),
    EnvLine("MAILER_URLPATHS_EMAIL_CHANGE", <<"\"/auth/v1/verify\"">>),
    EnvLine("ENABLE_EMAIL_SIGNUP", <<"true">>),
    EnvLine("ENABLE_EMAIL_AUTOCONFIRM", <<"true">>),
    EnvLine("SMTP_ADMIN_EMAIL", <<"admin@example.com">>),
    EnvLine("SMTP_HOST", pn \o <<"-", "mail">>),
    EnvLine("SMTP_PORT", <<"2500">>),
    EnvLine("SMTP_USER", <<"fake_mail_user">>),
    EnvLine("SMTP_PASS", <<"fake_mail_password">>),
    EnvLine("SMTP_SENDER_NAME", <<"fake_sender">>),
    EnvLine("ENABLE_ANONYMOUS_USERS", <<"false">>),
    EnvLine("ENABLE_PHONE_SIGNUP", <<"true">>),
    EnvLine("ENABLE_PHONE_AUTOCONFIRM", <<"true">>),
    EnvLine("STUDIO_DEFAULT_ORGANIZATION", <<"\"">> \o pn \o <<"\"">>),
    EnvLine("STUDIO_DEFAULT_PROJECT", <<"\"">> \o pn \o <<"\"">>),
    EnvLine("STUDIO_PORT", Digits(pt["studio"])),
    EnvLine("SUPABASE_PUBLIC_URL", <<"http://localhost:">> \o Digits(pt["kong_http"])),
    EnvLine("IMGPROXY_ENABLE_WEBP_DETECTION", <<"true">>),
    EnvLine("OPENAI_API_KEY", <<>>),
    EnvLine("FUNCTIONS_VERIFY_JWT", <<"false">>),
    EnvLine("LOGFLARE_LOGGER_BACKEND_API_KEY", RandomChoices(LogflareKeyLen, c)),
    EnvLine("LOGFLARE_API_KEY", RandomChoices(LogflareKeyLen, c)),
    EnvLine("DOCKER_SOCKET_LOCATION", <<"/var/run/docker.sock">>),
    EnvLine("GOOGLE_PROJECT_ID", <<"GOOGLE_PROJECT_ID">>),
    EnvLine("GOOGLE_PROJECT_NUMBER", <<"GOOGLE_PROJECT_NUMBER">>) >>)

RECURSIVE SplitPieces(_, _, _)
\* the pieces of s[lo..hi] between line ends: each character of LineEnds
\* ends a line, "\r\n" as one
SplitPieces(s, lo, hi) ==
  LET ends == {j \in lo..hi : /\ s[j] \in LineEnds
                              /\ s[j] = LF => (j = 1 \/ s[j - 1] # CR)}
      e == NearMiddle(ends, (lo + hi) \div 2)
      n == IF s[e] = CR /\ e < Len(s) /\ s[e + 1] = LF THEN e + 2 ELSE e + 1
  IN IF ends = {} THEN <<SubSeq(s, lo, hi)>>
     ELSE SplitPieces(s, lo, e - 1) \o SplitPieces(s, n, hi)

\* s.splitlines(): a text that is empty or ends with a line end has no empty
\* last line
SplitLines(s) ==
  LET ps == SplitPieces(s, 1, Len(s))
  IN IF ps[Len(ps)] = <<>> THEN SubSeq(ps, 1, Len(ps) - 1) ELSE ps

\* line.startswith(f"{key}=")
StartsWithKey(line, key) == Len(line) >= 2 /\ line[1] = key /\ line[2] = "="

RECURSIVE ExtractFrom(_, _)
\* the loop of _extract_env_value over the lines left
ExtractFrom(ls, key) ==
  IF ls = <<>> THEN <<"missing_", key>>
  ELSE IF StartsWithKey(ls[1], key)
       THEN Strip(SubSeq(ls[1], 3, Len(ls[1])))
       ELSE ExtractFrom(Tail(ls), key)

\* _extract_env_value(key) with self.templates.get("env", "") = env
ExtractEnvValue(env, key) == ExtractFrom(SplitLines(env), key)

\* a service of kong.yml with its cors plugin
KongService(name, pn, host, rest, cors) ==
  << <<"  - name: ", name>>,
     <<"    url: http://">> \o pn \o <<"-", host, rest>>,
     <<"      - name: cors">>,
     <<"          origins:">>,
     <<"            - ">> \o cors >>

\* self.templates["kong"], env being self.templates["env"]
KongTemplate(pn, cors, env) ==
  JoinLines(
    << <<"_format_version: '2.1'">>,
       <<"consumers:">>,
       <<"  - username: anon">>,
       <<"      - key: ">> \o ExtractEnvValue(env, "ANON_KEY"),
       <<"  - username: service_role">>,
       <<"      - key: ">> \o ExtractEnvValue(env, "SERVICE_ROLE_KEY"),
       <<"basicauth_credentials:">>,
       <<"  - consumer: DASHBOARD">>,
       <<"    username: ">> \o ExtractEnvValue(env, "DASHBOARD_USERNAME"),
       <<"    password: ">> \o ExtractEnvValue(env, "DASHBOARD_PASSWORD"),
       <<"services:">> >>
    \o KongService("auth-v1", pn, "auth", ":9999/verify", cors)
    \o KongService("auth-v1-api", pn, "auth", ":9999", cors)
    \o KongService("auth-v1-admin", pn, "auth", ":9999/admin", cors)
    \o KongService("rest", pn, "rest", ":3000", cors)
    \o KongService("postgrest", pn, "rest", ":3000", cors)
    \o KongService("realtime", pn, "realtime", ":4000/socket/", cors)
    \o KongService("realtime-api", pn, "realtime", ":4000", cors)
    \o KongService("storage", pn, "storage", ":5000", cors)
    \o KongService("meta", pn, "meta", ":8080", cors)
    \o KongService("functions", pn, "edge-functions", ":9000", cors)
    \o << <<"          max_age: 3600">>, <<>> >>)

\* a route of the router transform of vector.yml
VectorRoute(service) ==
  <<"      ", service, ": '.appname == \"", "__PROJECT__", "-", service, "\"'">>

\* the sink of both embedded vector.yml bodies
VectorAnalyticsSink ==
  << <<"  analytics:">>,
     <<"    uri: http://", "__ANALYTICS_SERVICE__", ":4000/api/logs">>,
     <<"      token: \"${LOGFLARE_API_KEY}\"">>,
     <<"        Content-Type: application/json">> >>

\* the embedded body used when no vector.yml lies next to the script
VectorDefault ==
  JoinLines(
    << <<"# Default Vector configuration for Supabase">>,
       <<"sources:">>,
       <<"  docker_host:">>,
       <<"      - ", "__PROJECT__", "-vector # Exclude vector logs from being ingested by itself">>,
       <<"transforms:">>,
       <<"      .project = \"", "__PROJECT__", "\"">>,
       <<"  router:">>,
       <<"    route:">>,
       VectorRoute("kong"),
       VectorRoute("auth"),
       VectorRoute("rest"),
       VectorRoute("realtime"),
       VectorRoute("storage"),
       VectorRoute("functions"),
       VectorRoute("db"),
       <<"sinks:">> >>
    \o VectorAnalyticsSink)

\* the embedded body used when loading the template raised
VectorMinimal ==
  JoinLines(
    << <<"# Default Vector configuration for Supabase">>,
       <<"sources:">>,
       <<"  docker_syslog:">>,
       <<"    docker_host: unix:///var/run/docker.sock">>,
       <<"transforms:">>,
       <<"  parse_logs:">>,
       <<"sinks:">> >>
    \o VectorAnalyticsSink)

\* a loader that falls back to the minimal body when the file is absent
VectorTemplateMinimal(vf) ==
  IF vf.kind = "file" THEN UniversalNewlines(vf.content) ELSE VectorMinimal

\* self.templates["vector"] after _init_vector_template, vf being the file
\* vector.yml next to the script; read_text() opens it in text mode, which
\* turns every "\r\n" and every other "\r" into "\n"
VectorTemplate(vf) ==
  IF vf.kind = "file" THEN UniversalNewlines(vf.content)
  ELSE IF vf.kind = "absent" THEN VectorDefault
  ELSE VectorMinimal

\* self.templates["pooler"]: a plain literal, not an f-string
PoolerTemplate ==
  JoinLines(<< <<"{:ok, _} = Application.ensure_all_started(:supavisor)">>,
               <<"params = %{">>,
               <<"  \"external_id\" => System.get_env(\"POOLER_TENANT_ID\"),">>,
               <<"  \"db_host\" => \"", "{self.project_name}", "-", "db", "\",">>,
               <<"  \"db_port\" => System.get_env(\"POSTGRES_PORT\"),">>,
               <<"}">>,
               <<>> >>)

\* the templates of _init_db_templates, by key.  A string of this module
\* cannot hold the grave accent, so the psql lines that set a variable from
\* a shell command (the first line of five scripts, the first two of
\* jwt_sql, the second of roles_sql) are left out; every other line of the
\* six short scripts is here, and of webhooks_sql the first and last lines.
SqlTemplate(key) ==
  CASE key = "supabase_sql" ->
         Plain(<<"", "CREATE DATABASE _supabase WITH OWNER :pguser;">>)
    [] key = "logs_sql" ->
         Plain(<<"", "\\c _supabase",
                 "create schema if not exists _analytics;",
                 "alter schema _analytics owner to :pguser;", "\\c postgres">>)
    [] key = "jwt_sql" ->
         Plain(<<"",
                 "ALTER DATABASE postgres SET \"app.settings.jwt_secret\" TO :'jwt_secret';",
                 "ALTER DATABASE postgres SET \"app.settings.jwt_exp\" TO :'jwt_exp';">>)
    [] key = "pooler_sql" ->
         Plain(<<"", "\\c _supabase",
                 "create schema if not exists _supavisor;",
                 "alter schema _supavisor owner to :pguser;", "\\c postgres">>)
    [] key = "realtime_sql" ->
         Plain(<<"", "create schema if not exists _realtime;",
                 "alter schema _realtime owner to :pguser;">>)
    [] key = "roles_sql" ->
         Plain(<<"-- NOTE: change to your own passwords for production environments",
                 "",
                 "ALTER USER authenticator WITH PASSWORD :'pgpass';",
                 "ALTER USER pgbouncer WITH PASSWORD :'pgpass';",
                 "ALTER USER supabase_auth_admin WITH PASSWORD :'pgpass';",
                 "ALTER USER supabase_functions_admin WITH PASSWORD :'pgpass';",
                 "ALTER USER supabase_storage_admin WITH PASSWORD :'pgpass';">>)
    [] OTHER ->
         Plain(<<"BEGIN;", "  -- Create pg_net extension", "COMMIT;">>)

\* self.templates["function_main"]
FunctionMainTemplate ==
  Plain(<<"// Follow this setup guide to integrate the Deno language server with your editor:",
          "import { serve } from \"https://deno.land/std@0.131.0/http/server.ts\";",
          "console.log(\"Hello from Functions!\");",
          "});">>)

\* self.templates["function_hello"]
FunctionHelloTemplate(pn) ==
  JoinLines(<< <<"// Follow this setup guide to integrate the Deno language server with your editor:">>,
               <<"    projectName: \"">> \o pn \o <<"\",">>,
               <<"});">> >>)

\* the stub run() writes when volumes/functions/main/index.ts is missing
SampleFunction ==
  Plain(<<"// Sample Supabase Edge Function",
          "import { serve } from \"https://deno.land/std@0.131.0/http/server.ts\";",
          "serve((_req) => new Response(\"Hello from Edge Functions!\"));",
          "">>)

\* self.templates["reset_script"]
ResetScriptTemplate ==
  Plain(<<"#!/bin/sh", "docker compose down -v --remove-orphans",
          "rm -rf ./volumes/db/data", "mkdir -p ./volumes/db/data",
          "echo \"Reset complete. You can now start the project with: docker compose up">>)

\* a port line of the README
ReadmePort(label, port) == <<"- ", label, ": ">> \o Digits(port)

\* self.templates["readme"]
ReadmeTemplate(pn, pt) ==
  JoinLines(<< <<"# Supabase Project: ">> \o pn,
               <<>>,
               <<"## Port Configuration">>,
               ReadmePort("Kong HTTP API", pt["kong_http"]),
               ReadmePort("Kong HTTPS API", pt["kong_https"]),
               ReadmePort("PostgreSQL", pt["postgres"]),
               ReadmePort("Pooler (Connection Pooler)", pt["pooler"]),
               ReadmePort("Studio Dashboard", pt["studio"]),
               ReadmePort("Analytics", pt["analytics"]),
               <<>> >>)

\* override_content of _create_docker_compose_override
OverrideContent ==
  Plain(<<"services:", "  kong:", "    volumes:",
          "      - ./volumes/api/kong.yml:/home/kong/kong.yml:ro,z",
          "    entrypoint: /docker-entrypoint.sh kong docker-start", "">>)

TemplateKeys ==
  {"docker_compose", "env", "vector", "kong", "pooler", "function_main",
   "function_hello", "reset_script", "readme"}
    \cup {SqlKeys[k] : k \in 1..Len(SqlKeys)}

\* a template set whose gateway template is left to be rendered by run()
InitializeTemplatesLazyKong(pn, pt, cors, c, vf) ==
  [key \in TemplateKeys \ {"kong"} |->
     CASE key = "docker_compose" -> DockerComposeTemplate(pn, pt)
       [] key = "env" -> EnvTemplate(pn, pt, c)
       [] key = "vector" -> VectorTemplate(vf)
       [] key = "pooler" -> PoolerTemplate
       [] key = "function_main" -> FunctionMainTemplate
       [] key = "function_hello" -> FunctionHelloTemplate(pn)
       [] key = "reset_script" -> ResetScriptTemplate
       [] key = "readme" -> ReadmeTemplate(pn, pt)
       [] OTHER -> SqlTemplate(key)]

\* a template set whose env template carries the origin that was answered
InitializeTemplatesOriginInEnv(pn, pt, cors, c, vf) ==
  [key \in TemplateKeys |->
     CASE key = "docker_compose" -> DockerComposeTemplate(pn, pt)
       [] key = "env" -> EnvTemplate(pn, pt, c) \o <<LF, "CORS_ORIGIN", "=">> \o cors
       [] key = "vector" -> VectorTemplate(vf)
       [] key = "kong" -> KongTemplate(pn, cors, EnvTemplate(pn, pt, c))
       [] key = "pooler" -> PoolerTemplate
       [] key = "function_main" -> FunctionMainTemplate
       [] key = "function_hello" -> FunctionHelloTemplate(pn)
       [] key = "reset_script" -> ResetScriptTemplate
       [] key = "readme" -> ReadmeTemplate(pn, pt)
       [] OTHER -> SqlTemplate(key)]

\* self.templates after _initialize_templates: docker_compose, env, vector,
\* kong (which reads the env template back), pooler, db, function, misc
InitializeTemplates(pn, pt, cors, c, vf) ==
  [key \in TemplateKeys |->
     CASE key = "docker_compose" -> DockerComposeTemplate(pn, pt)
       [] key = "env" -> EnvTemplate(pn, pt, c)
       [] key = "vector" -> VectorTemplate(vf)
       [] key = "kong" -> KongTemplate(pn, cors, EnvTemplate(pn, pt, c))
       [] key = "pooler" -> PoolerTemplate
       [] key = "function_main" -> FunctionMainTemplate
       [] key = "function_hello" -> FunctionHelloTemplate(pn)
       [] key = "reset_script" -> ResetScriptTemplate
       [] key = "readme" -> ReadmeTemplate(pn, pt)
       [] OTHER -> SqlTemplate(key)]

\* self.templates before _initialize_templates: a dict with no key
NoTemplates == [key \in {} |-> <<>>]

(***************************************************************************)
(* The state.                                                              *)
(***************************************************************************)
VARIABLES
  occupied,             \* the host ports something listens on
  os_linesep,           \* os.linesep of the host
  vector_file,          \* the file vector.yml next to the script
  argv_base,            \* the base_port argument, NoPort when not given, per invocation
  project_name,         \* Path(project_name).name
  rand_int,             \* what random.randint(3000, 9000) returns, per invocation
  rand_char,            \* what random.choices draws, per invocation
  external,             \* the tree another program places below the project directory
  stdin_eof,            \* whether standard input ends after its lines, per invocation
  launched,             \* the invocations of the script that are started
  seeded,               \* whether it has placed it
  stdin,                \* the lines waiting on standard input, per invocation
  answers,              \* the lines the calls of input() have returned, per invocation
  fs,                   \* the filesystem at and below the project directory
  pc,                   \* where each invocation stands
  err,                  \* the exception that ended an invocation
  base_port,            \* self.base_port
  ports,                \* self.ports
  found,                \* the ports dict _calculate_ports is building
  svc,                  \* the entry of the ports dict being searched, 0 for the base
  port,                 \* port of _find_available_port
  cors_origins_config,  \* self.cors_origins_config
  origin,               \* self.origin
  templates,            \* self.templates
  idx,                  \* the loop and statement counter of run()
  prompts,              \* the number of calls of input() so far
  probes,               \* the number of calls of _is_port_available so far
  existed,              \* whether the project path existed when __init__ was entered
  entry_pc,             \* where the invocations stood when __init__ was entered
  oplog,                \* the changes each invocation has made to the filesystem
  extracted             \* the last call of _extract_env_value and what it returned

host_vars ==
  <<occupied, os_linesep, vector_file, argv_base, project_name, rand_int,
    rand_char, external, stdin_eof, launched>>

port_vars == <<base_port, ports, found, svc, port, probes>>

prompt_vars == <<stdin, answers, cors_origins_config, origin, prompts>>

vars ==
  <<occupied, os_linesep, vector_file, argv_base, project_name, rand_int,
    rand_char, external, stdin_eof, launched, seeded, stdin, answers, fs, pc,
    err, base_port, ports, found, svc, port, cors_origins_config, origin,
    templates, idx, prompts, probes, existed, entry_pc, oplog, extracted>>

NoPorts == [s \in Services |-> NoPort]

EmptyTree == [p \in Paths |-> Absent]

\* the tree that holds node n at path p and the directories leading to it
TreeWith(p, n) ==
  [q \in Paths |-> IF q = p THEN n ELSE IF q \in Ancestors(p) THEN Dir ELSE Absent]

(***************************************************************************)
(* __init__                                                                *)
(***************************************************************************)
\* an invocation ends with exception e
Fail(i, e) ==
  /\ pc' = [pc EXCEPT ![i] = "failed"]
  /\ err' = [err EXCEPT ![i] = e]

\* a protocol that is given "://" whether it ends with it or not
WithSchemeAlways(protocol) == protocol \o <<"://">>

\* the protocol after 'if not protocol.endswith("://"): protocol += "://"'
WithScheme(protocol) ==
  IF EndsWith(protocol, <<"://">>) THEN protocol ELSE protocol \o <<"://">>

\* the answer that selects localhost
IsLocalhost(line) == Upper(Strip(line)) = <<"Y">>

\* self.cors_origins_config for the lines typed: one line when it selects
\* localhost, three otherwise
CorsOriginsConfig(lines) ==
  IF IsLocalhost(lines[1]) THEN <<"\"*\"">>
  ELSE <<"\"">> \o WithScheme(Strip(lines[2])) \o Strip(lines[3]) \o <<"\"">>

\* self.origin for the lines typed
Origin(lines) ==
  IF IsLocalhost(lines[1]) THEN <<"http://", "localhost">>
  ELSE WithScheme(Strip(lines[2])) \o Strip(lines[3])

\* lines 21-26: the script is started, __init__ is entered, stores the paths
\* and the base_port argument (line 23) and calls input() for the first
\* prompt
Enter(i) ==
  /\ i \in launched
  /\ pc[i] = "start"
  /\ base_port' = [base_port EXCEPT ![i] = argv_base[i]]
  /\ existed' = [existed EXCEPT ![i] = PathExists(fs, ".")]
  /\ entry_pc' = [entry_pc EXCEPT ![i] = pc]
  /\ prompts' = [prompts EXCEPT ![i] = prompts[i] + 1]
  /\ pc' = [pc EXCEPT ![i] = "input"]
  /\ UNCHANGED <<host_vars, extracted, seeded, stdin, answers, fs, err, ports, found,
                 svc, port, probes, cors_origins_config, origin, templates, idx,
                 oplog>>

\* the input() of line 26, 37 or 40 returns the next line of standard input.
\* The first answer, when it selects localhost, and the third one otherwise
\* decide the origin (lines 31-43); any other answer is followed by the
\* next call of input().  With no line waiting the call blocks.
Input(i) ==
  /\ pc[i] = "input"
  /\ stdin[i] # <<>>
  /\ LET got == Append(answers[i], Head(stdin[i]))
     IN /\ answers' = [answers EXCEPT ![i] = got]
        /\ stdin' = [stdin EXCEPT ![i] = Tail(stdin[i])]
        /\ IF IsLocalhost(got[1]) \/ Len(got) = 3
           THEN /\ cors_origins_config' =
                     [cors_origins_config EXCEPT ![i] = CorsOriginsConfig(got)]
                /\ origin' = [origin EXCEPT ![i] = Origin(got)]
                /\ pc' = [pc EXCEPT ![i] = "calc_ports"]
                /\ UNCHANGED prompts
           ELSE /\ prompts' = [prompts EXCEPT ![i] = prompts[i] + 1]
                /\ UNCHANGED <<cors_origins_config, origin, pc>>
  /\ UNCHANGED <<host_vars, extracted, seeded, fs, err, port_vars, templates, idx,
                 existed, entry_pc, oplog>>

\* input() meets the end of standard input: EOFError leaves __init__
InputEof(i) ==
  /\ pc[i] = "input"
  /\ stdin[i] = <<>>
  /\ stdin_eof[i]
  /\ Fail(i, "EOFError")
  /\ UNCHANGED <<host_vars, extracted, seeded, fs, port_vars, prompt_vars, templates,
                 idx, existed, entry_pc, oplog>>

\* a probe that also counts as taken the ports an earlier allocation returned
IsPortAvailableReserving(occ, p) ==
  /\ p \notin occ
  /\ \A j \in Invocations, s \in Services : ports[j][s] # p

\* _is_port_available(p): connect_ex refused
IsPortAvailable(occ, p) == p \notin occ

\* _calculate_ports taking the random seed as the base port without probing it
CalculatePortsSeedUnprobed(i) ==
  /\ pc[i] = "calc_ports"
  /\ base_port' = [base_port EXCEPT ![i] =
                     IF base_port[i] = NoPort THEN rand_int[i] ELSE base_port[i]]
  /\ svc' = [svc EXCEPT ![i] = 1]
  /\ port' = [port EXCEPT ![i] = base_port'[i] + Offset[1]]
  /\ pc' = [pc EXCEPT ![i] = "probe"]
  /\ UNCHANGED <<host_vars, extracted, seeded, fs, err, ports, found, probes,
                 prompt_vars, templates, idx, existed, entry_pc, oplog>>

\* lines 204-209: the first search of _calculate_ports starts, for the base
\* port when none was given and for kong_http otherwise
CalculatePorts(i) ==
  /\ pc[i] = "calc_ports"
  /\ IF base_port[i] = NoPort
     THEN /\ svc' = [svc EXCEPT ![i] = 0]
          /\ port' = [port EXCEPT ![i] = rand_int[i]]
     ELSE /\ svc' = [svc EXCEPT ![i] = 1]
          /\ port' = [port EXCEPT ![i] = base_port[i] + Offset[1]]
  /\ pc' = [pc EXCEPT ![i] = "probe"]
  /\ UNCHANGED <<host_vars, base_port, extracted, seeded, fs, err, ports, found, probes,
                 prompt_vars, templates, idx, existed, entry_pc, oplog>>

\* _calculate_ports with every target after the first taken from the port
\* the previous service was given
PortFoundChained(i, p) ==
  IF svc[i] = 0
  THEN /\ base_port' = [base_port EXCEPT ![i] = p]
       /\ svc' = [svc EXCEPT ![i] = 1]
       /\ port' = [port EXCEPT ![i] = p + Offset[1]]
       /\ UNCHANGED <<found, ports, pc>>
  ELSE /\ found' = [found EXCEPT ![i][ServiceOrder[svc[i]]] = p]
       /\ UNCHANGED base_port
       /\ IF svc[i] < 6
          THEN /\ svc' = [svc EXCEPT ![i] = svc[i] + 1]
               /\ port' = [port EXCEPT ![i] = p + Offset[svc[i] + 1] - Offset[svc[i]]]
               /\ UNCHANGED <<ports, pc>>
          ELSE /\ ports' = [ports EXCEPT ![i] = found'[i]]
               /\ pc' = [pc EXCEPT ![i] = "check_exists"]
               /\ UNCHANGED <<svc, port>>

\* _find_available_port returns p to _calculate_ports, which stores it and
\* starts the next search
PortFound(i, p) ==
  IF svc[i] = 0
  THEN /\ base_port' = [base_port EXCEPT ![i] = p]
       /\ svc' = [svc EXCEPT ![i] = 1]
       /\ port' = [port EXCEPT ![i] = p + Offset[1]]
       /\ UNCHANGED <<found, ports, pc>>
  ELSE /\ found' = [found EXCEPT ![i][ServiceOrder[svc[i]]] = p]
       /\ UNCHANGED base_port
       /\ IF svc[i] < 6
          THEN /\ svc' = [svc EXCEPT ![i] = svc[i] + 1]
               /\ port' = [port EXCEPT ![i] = base_port[i] + Offset[svc[i] + 1]]
               /\ UNCHANGED <<ports, pc>>
          ELSE /\ ports' = [ports EXCEPT ![i] = found'[i]]
               /\ pc' = [pc EXCEPT ![i] = "check_exists"]
               /\ UNCHANGED <<svc, port>>

\* lines 197-200: one turn of the loop of _find_available_port
Probe(i) ==
  /\ pc[i] = "probe"
  /\ probes' = [probes EXCEPT ![i] = probes[i] + 1]
  /\ IF port[i] < 0 \/ port[i] > MaxPort
     THEN /\ Fail(i, "OverflowError")
          /\ UNCHANGED <<base_port, ports, found, svc, port>>
     ELSE IF IsPortAvailable(occupied, port[i])
          THEN /\ PortFound(i, port[i])
               /\ UNCHANGED err
          ELSE /\ port' = [port EXCEPT ![i] = port[i] + 1]
               /\ UNCHANGED <<base_port, ports, found, svc, pc, err>>
  /\ UNCHANGED <<host_vars, extracted, seeded, fs, prompt_vars, templates, idx, existed, entry_pc, oplog>>

\* lines 184-185: the existence check of _create_project_directory
CheckExists(i) ==
  /\ pc[i] = "check_exists"
  /\ IF PathExists(fs, ".")
     THEN Fail(i, "FileExistsError")
     ELSE /\ pc' = [pc EXCEPT ![i] = "mkdir"]
          /\ UNCHANGED err
  /\ UNCHANGED <<host_vars, extracted, seeded, fs, port_vars, prompt_vars, templates, idx,
                 existed, entry_pc, oplog>>

\* self.project_dir.mkdir(parents=True, exist_ok=True)
MkdirProjectExistOk(i) ==
  /\ pc[i] = "mkdir"
  /\ LET r == Mkdir(fs, ".", TRUE)
     IN IF r.err # "none"
        THEN /\ Fail(i, r.err)
             /\ UNCHANGED <<fs, oplog>>
        ELSE /\ fs' = r.fs
             /\ oplog' = [oplog EXCEPT ![i] = oplog[i] \o <<Op("mkdir", ".")>>]
             /\ pc' = [pc EXCEPT ![i] = "init_templates"]
             /\ UNCHANGED err
  /\ UNCHANGED <<host_vars, extracted, seeded, port_vars, prompt_vars, templates, idx, existed, entry_pc>>

\* line 187: self.project_dir.mkdir(parents=True)
MkdirProject(i) ==
  /\ pc[i] = "mkdir"
  /\ LET r == Mkdir(fs, ".", FALSE)
     IN IF r.err # "none"
        THEN /\ Fail(i, r.err)
             /\ UNCHANGED <<fs, oplog>>
        ELSE /\ fs' = r.fs
             /\ oplog' = [oplog EXCEPT ![i] = oplog[i] \o r.ops]
             /\ pc' = [pc EXCEPT ![i] = "init_templates"]
             /\ UNCHANGED err
  /\ UNCHANGED <<host_vars, extracted, seeded, port_vars, prompt_vars, templates, idx, existed, entry_pc>>

\* lines 52-53: the templates are rendered and __init__ returns
RenderTemplates(i) ==
  /\ pc[i] = "init_templates"
  /\ templates' =
       [templates EXCEPT ![i] =
          InitializeTemplates(project_name, ports[i], cors_origins_config[i],
                              rand_char[i], vector_file)]
  /\ pc' = [pc EXCEPT ![i] = "constructed"]
  /\ UNCHANGED <<host_vars, extracted, seeded, fs, err, port_vars, prompt_vars, idx,
                 existed, entry_pc, oplog>>

(***************************************************************************)
(* run()                                                                   *)
(***************************************************************************)
\* lines 115-117: the bytes _write_with_unix_newlines writes for content
UnixNewlineBytes(content) == Replace(content, <<CR, LF>>, <<LF>>)

\* _write_with_unix_newlines(path, content)
WriteWithUnixNewlines(f, path, content) ==
  WriteFile(f, path, UnixNewlineBytes(content))

\* Path.write_text(content)
WriteText(f, path, content, linesep) ==
  WriteFile(f, path, TextModeBytes(content, linesep))

\* lines 165-176: vector_config of _write_vector_config
VectorConfig(vector_template, pn) ==
  Replace(Replace(Replace(vector_template, <<"__PROJECT__">>, pn),
                  <<"__ANALYTICS_SERVICE__">>, pn \o <<"-", "analytics">>),
          <<"__KONG_SERVICE__">>, pn \o <<"-", "kong">>)

\* lines 89-107: the k-th write of run(); unix tells the writes made by
\* _write_with_unix_newlines from the ones made by write_text
WritePlan(t, pn, k) ==
  CASE k = 1 -> [path |-> ComposeYml, content |-> t["docker_compose"], unix |-> TRUE]
    [] k = 2 -> [path |-> EnvFile, content |-> t["env"], unix |-> TRUE]
    [] k = 3 -> [path |-> KongYml, content |-> t["kong"], unix |-> TRUE]
    [] k = 4 -> [path |-> OverrideYml, content |-> OverrideContent, unix |-> FALSE]
    [] k = 5 -> [path |-> VectorYml, content |-> VectorConfig(t["vector"], pn),
                 unix |-> FALSE]
    [] k = 6 -> [path |-> PoolerExs, content |-> t["pooler"], unix |-> TRUE]
    [] k \in 7..13 -> [path |-> SqlPaths[k - 6], content |-> t[SqlKeys[k - 6]],
                       unix |-> TRUE]
    [] k = 14 -> [path |-> IndexTs, content |-> t["function_main"], unix |-> FALSE]
    [] k = 15 -> [path |-> "reset.sh", content |-> t["reset_script"], unix |-> FALSE]
    [] OTHER -> [path |-> "README.md", content |-> t["readme"], unix |-> FALSE]

\* a count of writes that leaves out the last one
NumWritesShort == Len(SqlPaths) + 8

\* the number of writes of lines 89-107
NumWrites == Len(SqlPaths) + 9

\* lines 72-74 and 78-80: a file in the way is removed, then the directory
\* is made with its parents
EnsureDir(f, p) ==
  IF PathExists(f, p) /\ ~IsDir(f, p)
  THEN LET r == Mkdir(Unlink(f, p), p, TRUE)
       IN [r EXCEPT !.ops = <<Op("unlink", p)>> \o r.ops]
  ELSE Mkdir(f, p, TRUE)

\* a step that removes what lies below the project directory when the
\* call fails
StepRollback(i, r, nextpc, nextidx) ==
  /\ oplog' = [oplog EXCEPT ![i] = oplog[i] \o r.ops]
  /\ IF r.err # "none"
     THEN /\ fs' = [p \in Paths |-> IF p = "." THEN r.fs[p] ELSE Absent]
          /\ Fail(i, r.err)
          /\ UNCHANGED idx
     ELSE /\ fs' = r.fs
          /\ pc' = [pc EXCEPT ![i] = nextpc]
          /\ idx' = [idx EXCEPT ![i] = nextidx]
          /\ UNCHANGED err

\* the outcome r of a filesystem call ends the invocation or moves it on
Step(i, r, nextpc, nextidx) ==
  /\ fs' = r.fs
  /\ oplog' = [oplog EXCEPT ![i] = oplog[i] \o r.ops]
  /\ IF r.err # "none"
     THEN /\ Fail(i, r.err)
          /\ UNCHANGED idx
     ELSE /\ pc' = [pc EXCEPT ![i] = nextpc]
          /\ idx' = [idx EXCEPT ![i] = nextidx]
          /\ UNCHANGED err

\* lines 70-74: one turn of the loop over subdirs; the first one is the
\* call of run()
RunSubdir(i) ==
  /\ pc[i] \in {"constructed", "subdirs"}
  /\ LET k == idx[i] + 1
     IN Step(i, EnsureDir(fs, SubDirs[k]),
             IF k = Len(SubDirs) THEN "main_dir" ELSE "subdirs",
             IF k = Len(SubDirs) THEN 0 ELSE k)
  /\ UNCHANGED <<host_vars, extracted, seeded, port_vars, prompt_vars, templates, existed, entry_pc>>

\* lines 77-80: volumes/functions/main
RunMainDir(i) ==
  /\ pc[i] = "main_dir"
  /\ Step(i, EnsureDir(fs, MainDir), "sample", 0)
  /\ UNCHANGED <<host_vars, extracted, seeded, port_vars, prompt_vars, templates, existed, entry_pc>>

\* lines 81-86: the sample function, written when index.ts is missing
RunSampleFunction(i) ==
  /\ pc[i] = "sample"
  /\ Step(i,
          IF PathExists(fs, IndexTs) THEN Ok(fs, <<>>)
          ELSE WriteText(fs, IndexTs, SampleFunction, os_linesep),
          "write", 0)
  /\ UNCHANGED <<host_vars, extracted, seeded, port_vars, prompt_vars, templates, existed, entry_pc>>

\* lines 89-107: the next write of run()
RunWrite(i) ==
  /\ pc[i] = "write"
  /\ LET k == idx[i] + 1
         w == WritePlan(templates[i], project_name, k)
     IN Step(i,
             IF w.unix THEN WriteWithUnixNewlines(fs, w.path, w.content)
             ELSE WriteText(fs, w.path, w.content, os_linesep),
             IF k = NumWrites THEN "fix" ELSE "write",
             IF k = NumWrites THEN 0 ELSE k)
  /\ UNCHANGED <<host_vars, extracted, seeded, port_vars, prompt_vars, templates, existed, entry_pc>>

\* Path.read_text() of a path
ReadText(f, p) ==
  IF ~Reachable(f, p) THEN [err |-> LookupError(f, p), text |-> <<>>]
  ELSE IF f[p].kind = "absent" THEN [err |-> "FileNotFoundError", text |-> <<>>]
  ELSE IF f[p].kind = "dir" THEN [err |-> "IsADirectoryError", text |-> <<>>]
  ELSE [err |-> "none", text |-> UniversalNewlines(f[p].content)]

\* lines 146-148: the manifest after the patch, content being what was read
PatchHealthcheck(f, content) ==
  IF Contains(content, OldHealthcheck)
  THEN WriteWithUnixNewlines(f, ComposeYml,
                             Replace(content, OldHealthcheck, NewHealthcheck))
  ELSE Ok(f, <<>>)

\* _fix_realtime_healthcheck storing the patched manifest back into the
\* template set
FixRealtimeHealthcheckStoring(i) ==
  /\ pc[i] = "fix"
  /\ LET rd == ReadText(fs, ComposeYml)
     IN Step(i,
             IF rd.err # "none" THEN Raise(rd.err, fs)
             ELSE PatchHealthcheck(fs, rd.text),
             "done", 0)
  /\ templates' =
       [templates EXCEPT ![i]["docker_compose"] =
          Replace(templates[i]["docker_compose"], OldHealthcheck, NewHealthcheck)]
  /\ UNCHANGED <<host_vars, extracted, seeded, port_vars, prompt_vars, existed, entry_pc>>

\* lines 119-149: _fix_realtime_healthcheck, after which run() returns
FixRealtimeHealthcheck(i) ==
  /\ pc[i] = "fix"
  /\ LET rd == ReadText(fs, ComposeYml)
     IN Step(i,
             IF rd.err # "none" THEN Raise(rd.err, fs)
             ELSE PatchHealthcheck(fs, rd.text),
             "done", 0)
  /\ UNCHANGED <<host_vars, extracted, seeded, port_vars, prompt_vars, templates, existed, entry_pc>>

(***************************************************************************)
(* The environment: between __init__ and run() another program may place   *)
(* files and directories below the new project directory.                  *)
(***************************************************************************)
Seed ==
  /\ ~seeded
  /\ external # EmptyTree
  /\ \E i \in Invocations : pc[i] = "constructed"
  /\ \A p \in Paths \ {"."} : fs[p] = Absent
  /\ fs' = [p \in Paths |-> IF p = "." THEN fs[p] ELSE external[p]]
  /\ seeded' = TRUE
  /\ UNCHANGED <<host_vars, extracted, pc, err, port_vars, prompt_vars, templates, idx,
                 existed, entry_pc, oplog>>

(***************************************************************************)
(* Initial states: the host before the two invocations start.              *)
(***************************************************************************)
\* standard input: localhost; localhost typed in lower case from a file
\* with "\r\n" line ends; a custom domain; a custom domain with the scheme
StdinLocalhost == << <<"Y">>, <<"https">>, <<"example.com">> >>
StdinLowerCr == << <<" ", "y", CR>>, <<"https">>, <<"example.com">> >>
StdinDomain == << <<"N">>, <<"https">>, <<" ", "example.com", " ">> >>
StdinScheme == << <<>>, <<"http", "://">>, <<"example.com">> >>

\* localhost after a form feed and nothing more; a custom domain never named
StdinFormFeed == << <<"\f", "Y">> >>
StdinCutShort == << <<"N">>, <<"https">> >>

Stdins == {StdinLocalhost, StdinLowerCr, StdinDomain, StdinScheme}

\* project names: a plain one, one with line terminator characters, one
\* that ends with a blank
NamePlain == <<"demo">>
NameCrLf == <<"d", CR, CR, LF, "e">>
NameBlank == <<"demo", " ">>

\* the project path before the invocations: absent, an empty directory, a
\* directory left by an earlier run, a regular file
Roots ==
  {EmptyTree, TreeWith(".", Dir), TreeWith(EnvFile, File(<<"OLD", CR, LF>>)),
   TreeWith(".", File(<<"x">>))}

\* what another program may place below the project directory
Externals ==
  {EmptyTree,
   TreeWith("volumes", File(<<"x">>)),
   TreeWith("volumes/api", File(<<"x">>)),
   TreeWith("volumes/db", File(<<"x">>)),
   TreeWith("volumes/db/data", File(<<"x">>)),
   TreeWith("volumes/functions", File(<<"x">>)),
   TreeWith(MainDir, File(<<"x">>)),
   TreeWith(IndexTs, File(<<"seeded", CR, LF>>)),
   TreeWith(IndexTs, Dir),
   TreeWith(ComposeYml, Dir),
   TreeWith(EnvFile, File(<<"OLD", CR, LF>>)),
   TreeWith(VectorYml, Dir),
   TreeWith("README.md", Dir)}

\* a vector.yml next to the script: absent, present with "\n" line ends,
\* present with "\r\n" and "\r" line ends, present and empty, present and
\* unreadable
VectorFiles ==
  {Absent,
   File(JoinLines(<< <<"# vector.yml">>,
                     <<"      - ", "__PROJECT__", "-vector">>,
                     <<"    uri: http://", "__ANALYTICS_SERVICE__", ":4000/api/logs">>,
                     <<"      ", "kong", ": '.appname == \"", "__KONG_SERVICE__", "\"'">>,
                     <<>> >>)),
   File(<<"# vector.yml", CR, LF,
          "      - ", "__PROJECT__", "-vector", CR,
          "      ", "kong", ": '.appname == \"", "__KONG_SERVICE__", "\"'", CR, LF>>),
   File(<<>>),
   [kind |-> "unreadable", content |-> <<>>]}

\* the ports near the targets of base b that something may listen on
Candidates(b) ==
  {b, b + 1, b + KongHttpsOffset, b + PostgresOffset, b + PoolerOffset,
   b + AnalyticsOffset} \cap 0..MaxPort

\* the sets of listening ports for base b
Occupancies(b) == {occ \in SUBSET Candidates(b) : Cardinality(occ) <= MaxOccupied}

\* nobody answers the prompt of an invocation: input() blocks, or raises
\* when standard input is at its end
StdinSilent == <<>>

\* standard input stays open after its lines, or ends with them
StdinOpen == [i \in Invocations |-> FALSE]
StdinEnds == [i \in Invocations |-> TRUE]

\* the first invocation with lines to read, the second one with none
Alone(s) == [i \in Invocations |-> IF i = 1 THEN s ELSE StdinSilent]

\* both invocations answered
Both(s1, s2) == [i \in Invocations |-> IF i = 1 THEN s1 ELSE s2]

\* the invocations started when only those with a line to read are
Launched(s) == {i \in Invocations : s[i] # StdinSilent}

BaseConfig ==
  [root |-> EmptyTree,
   ext |-> EmptyTree,
   name |-> NamePlain,
   linesep |-> <<LF>>,
   vfile |-> Absent,
   stdin |-> Alone(StdinLocalhost),
   eof |-> StdinOpen,
   run |-> {1},
   base |-> [i \in Invocations |-> 4000],
   occ |-> {},
   rint |-> [i \in Invocations |-> SeedLow],
   rchar |-> [i \in Invocations |-> "a"]]

\* the host is as configuration c says and no invocation has started
Fresh(c) ==
  /\ occupied = c.occ
  /\ os_linesep = c.linesep
  /\ vector_file = c.vfile
  /\ argv_base = c.base
  /\ project_name = c.name
  /\ rand_int = c.rint
  /\ rand_char = c.rchar
  /\ external = c.ext
  /\ stdin_eof = c.eof
  /\ launched = c.run
  /\ seeded = FALSE
  /\ stdin = c.stdin
  /\ answers = [i \in Invocations |-> <<>>]
  /\ fs = c.root
  /\ pc = [i \in Invocations |-> "start"]
  /\ err = [i \in Invocations |-> "none"]
  /\ base_port = [i \in Invocations |-> NoPort]
  /\ ports = [i \in Invocations |-> NoPorts]
  /\ found = [i \in Invocations |-> NoPorts]
  /\ svc = [i \in Invocations |-> 0]
  /\ port = [i \in Invocations |-> 0]
  /\ cors_origins_config = [i \in Invocations |-> <<>>]
  /\ origin = [i \in Invocations |-> <<>>]
  /\ idx = [i \in Invocations |-> 0]
  /\ prompts = [i \in Invocations |-> 0]
  /\ probes = [i \in Invocations |-> 0]
  /\ existed = [i \in Invocations |-> FALSE]
  /\ entry_pc = [i \in Invocations |-> [j \in Invocations |-> "start"]]
  /\ oplog = [i \in Invocations |-> <<>>]

\* _extract_env_value has not been called
NoCall == [inv |-> 0, key |-> "", value |-> <<>>]

\* Fresh(c) with no template rendered
InitOf(c) ==
  /\ Fresh(c)
  /\ templates = [i \in Invocations |-> NoTemplates]
  /\ extracted = NoCall

\* every invocation is given base port b
SameBase(b) == [i \in Invocations |-> b]

\* configurations that vary the filesystem, the project name, the prompts
\* and the characters drawn for the secrets
FileConfigs ==
  {[BaseConfig EXCEPT !.root = r, !.stdin = s, !.run = Launched(s)] :
     r \in Roots, s \in {Alone(StdinLocalhost), Both(StdinLocalhost, StdinDomain)}}
    \cup {[BaseConfig EXCEPT !.ext = e, !.name = n, !.linesep = l] :
            e \in Externals, n \in {NamePlain, NameCrLf}, l \in {<<LF>>, <<CR, LF>>}}
    \cup {[BaseConfig EXCEPT !.vfile = v, !.name = n, !.stdin = Alone(s)] :
            v \in VectorFiles, n \in {NamePlain, NameCrLf, NameBlank}, s \in Stdins}
    \cup {[BaseConfig EXCEPT !.root = r, !.stdin = s, !.run = Launched(s),
                             !.occ = {4000 + PostgresOffset}, !.base = Both(4000, b)] :
            r \in {EmptyTree, TreeWith(".", Dir)},
            s \in {Alone(StdinLocalhost), Both(StdinLocalhost, StdinDomain),
                   Both(StdinSilent, StdinDomain)},
            b \in {4000, MaxPort - AnalyticsOffset + 1}}
    \cup {[BaseConfig EXCEPT !.rchar = [i \in Invocations |-> c], !.linesep = l] :
            c \in {"Z", "9"} \cap Alphabet, l \in {<<LF>>, <<CR, LF>>}}
    \cup {[BaseConfig EXCEPT !.stdin = Alone(s), !.eof = e, !.run = Invocations] :
            s \in {StdinSilent, StdinFormFeed, StdinCutShort},
            e \in {StdinOpen, StdinEnds}}

\* configurations that vary the base port and the listening ports
PortConfigs ==
  UNION {{[BaseConfig EXCEPT !.base = SameBase(b), !.occ = o, !.root = r] :
            o \in Occupancies(b), r \in {EmptyTree, TreeWith(".", Dir)}} :
           b \in {4000, MaxPort - AnalyticsOffset}}
    \cup {[BaseConfig EXCEPT !.base = SameBase(NoPort), !.occ = o, !.rint = r] :
            o \in Occupancies(SeedLow),
            r \in {[i \in Invocations |-> SeedLow],
                   [i \in Invocations |-> IF i = 1 THEN SeedHigh ELSE SeedLow]}}
    \cup {[BaseConfig EXCEPT !.base = SameBase(4000), !.occ = o, !.ext = e,
                             !.stdin = Both(StdinLocalhost, StdinLocalhost),
                             !.run = Invocations] :
            o \in {{}, {4000 + PostgresOffset}},
            e \in {EmptyTree, TreeWith(IndexTs, File(<<"seeded", CR, LF>>))}}
    \cup {[BaseConfig EXCEPT !.stdin = Alone(StdinCutShort), !.eof = StdinEnds]}

Init == \E c \in FileConfigs : InitOf(c)

InitPorts == \E c \in PortConfigs : InitOf(c)

Next ==
  \/ \E i \in Invocations : Enter(i)
  \/ \E i \in Invocations : Input(i)
  \/ \E i \in Invocations : InputEof(i)
  \/ \E i \in Invocations : CalculatePorts(i)
  \/ \E i \in Invocations : Probe(i)
  \/ \E i \in Invocations : CheckExists(i)
  \/ \E i \in Invocations : MkdirProject(i)
  \/ \E i \in Invocations : RenderTemplates(i)
  \/ \E i \in Invocations : RunSubdir(i)
  \/ \E i \in Invocations : RunMainDir(i)
  \/ \E i \in Invocations : RunSampleFunction(i)
  \/ \E i \in Invocations : RunWrite(i)
  \/ \E i \in Invocations : FixRealtimeHealthcheck(i)
  \/ Seed

\* the generator on hosts that differ in the filesystem, the name, the prompts
Spec == Init /\ [][Next]_vars

\* the generator on hosts that differ in the base port and the listening ports
SpecPorts == InitPorts /\ [][Next]_vars

(***************************************************************************)
(* The environment: the manifest is replaced by another one while run() is *)
(* between its last write and the health-check patch.                      *)
(***************************************************************************)
\* a manifest with "\r\n" line ends and no authenticated health check
ManifestCrLf ==
  <<"services:", CR, LF, "  realtime:", CR, LF,
    "    image: supabase/realtime", CR, LF>>

\* the manifests put in place of the written one: already patched, with the
\* first line of the check changed, another manifest, the written one with
\* "\r\n" line ends
Upstream(written) ==
  {Replace(written, OldHealthcheck, NewHealthcheck),
   Replace(written, <<"          \"CMD\",">>, <<"          \"CMD-SHELL\",">>),
   ManifestCrLf,
   Replace(written, <<LF>>, <<CR, LF>>)}

Tamper ==
  /\ \E i \in Invocations : pc[i] = "fix"
  /\ fs[ComposeYml].kind = "file"
  /\ Contains(fs[ComposeYml].content, OldHealthcheck)
  /\ \E c \in Upstream(fs[ComposeYml].content) :
       fs' = [fs EXCEPT ![ComposeYml] = File(c)]
  /\ UNCHANGED <<host_vars, extracted, seeded, pc, err, port_vars, prompt_vars, templates,
                 idx, existed, entry_pc, oplog>>

\* configurations that vary the name, the line separator and the seeded tree
PatchConfigs ==
  {[BaseConfig EXCEPT !.name = n, !.linesep = l, !.ext = e] :
     n \in {NamePlain, NameCrLf}, l \in {<<LF>>, <<CR, LF>>},
     e \in {EmptyTree, TreeWith(IndexTs, File(<<"seeded", CR, LF>>))}}
    \cup {[BaseConfig EXCEPT !.stdin = Alone(StdinCutShort), !.eof = StdinEnds]}

InitPatch == \E c \in PatchConfigs : InitOf(c)

NextPatch == Next \/ Tamper

\* the generator next to a program that replaces the manifest
SpecPatch == InitPatch /\ [][NextPatch]_vars

(***************************************************************************)
(* _extract_env_value on its own: the env template holds one of a set of   *)
(* contents and the method is called with one of a set of keys.            *)
(***************************************************************************)
\* the lines of the env contents tried
EnvSampleLines ==
  {<<"K", "=", "v">>,
   <<"K", "=", " ", "v", "\t">>,
   <<"K", "=", "", "v", " ", "U+3000">>,
   <<"K", "=", "a", "=", "b">>,
   <<"K", "=">>,
   <<"K", "=", "missing_", "K">>,
   <<"K", " ", "=", "v">>,
   <<"#", "K", "=", "v">>,
   <<"J", "=", "w">>}

\* the env contents tried: the empty text, one line, two lines with "\n"
\* between them, and a line followed by "\r\n", "\r", a form feed or
\* U+2028 and a second line with the key K or J
EnvSamples ==
  {<<>>} \cup EnvSampleLines
    \cup {a \o <<LF>> \o b : a \in EnvSampleLines, b \in EnvSampleLines}
    \cup {a \o e \o b : a \in EnvSampleLines,
                        b \in {<<"K", "=", "a", "=", "b">>, <<"J", "=", "w">>},
                        e \in {<<CR, LF>>, <<CR>>, <<"\f">>, <<"U+2028">>}}

\* the keys asked for
ExtractKeys == {"K", "J", "M"}

\* a call of self._extract_env_value(key) on invocation i's object
ExtractCall(i, key) ==
  /\ extracted' = [inv |-> i, key |-> key,
                   value |-> ExtractEnvValue(
                               IF "env" \in DOMAIN templates[i]
                               THEN templates[i]["env"] ELSE <<>>, key)]
  /\ UNCHANGED <<host_vars, seeded, fs, pc, err, port_vars, prompt_vars,
                 templates, idx, existed, entry_pc, oplog>>

InitExtract ==
  \E t \in {NoTemplates} \cup {[k \in {"env"} |-> e] : e \in EnvSamples} :
    /\ Fresh(BaseConfig)
    /\ templates = [i \in Invocations |-> t]
    /\ extracted = NoCall

NextExtract == \E i \in Invocations, key \in ExtractKeys : ExtractCall(i, key)

\* the env template and the calls of _extract_env_value
SpecExtract == InitExtract /\ [][NextExtract]_vars

(***************************************************************************)
(* Properties.                                                             *)
(***************************************************************************)
\* _calculate_ports has returned to invocation i
Allocated(i) == ports[i] # NoPorts

\* self.templates of invocation i holds every key: _initialize_templates
\* has returned
Rendered(i) == DOMAIN templates[i] = TemplateKeys

\* the files run() writes with _write_with_unix_newlines
SensitivePaths ==
  {ComposeYml, EnvFile, KongYml, PoolerExs} \cup {SqlPaths[k] : k \in 1..Len(SqlPaths)}

\* invocation i has made change o to the filesystem
Did(i, o) == \E k \in 1..Len(oplog[i]) : oplog[i][k] = o

\* C1: the six ports _calculate_ports returns are pairwise distinct, for
\* every base port and every set of listening ports.
C1_PortsPairwiseDistinct ==
  \A i \in Invocations :
    Allocated(i) =>
      \A s, t \in Services : s # t => ports[i][s] # ports[i][t]

\* C2: a port search that finds every port unavailable ends with the
\* AllocationExhausted condition (and no other error).
C2_ExhaustedSearchRaisesAllocationExhausted ==
  \A i \in Invocations :
    (pc[i] = "failed" /\ ~Allocated(i)) => err[i] = "AllocationExhausted"

\* C3: with an explicit base port B and the six targets B, B+443, B+1000,
\* B+1001, B+2000, B+3000 free, the ports returned are exactly the targets
\* (4000, 4443, 5000, 5001, 6000, 7000 for B = 4000), and two invocations
\* given the same base port on the same host are returned the same ports.
C3_FreeTargetsGiveExactPorts ==
  \A i \in Invocations :
    (Allocated(i) /\ argv_base[i] # NoPort) =>
      LET B == argv_base[i]
      IN /\ ({B, B + 443, B + 1000, B + 1001, B + 2000, B + 3000} \cap occupied = {}
               => ports[i] = [kong_http |-> B, kong_https |-> B + 443,
                              postgres |-> B + 1000, pooler |-> B + 1001,
                              studio |-> B + 2000, analytics |-> B + 3000])
         /\ ((B = 4000 /\ occupied \cap 4000..7499 = {})
               => ports[i] = [kong_http |-> 4000, kong_https |-> 4443,
                              postgres |-> 5000, pooler |-> 5001,
                              studio |-> 6000, analytics |-> 7000])
         /\ \A j \in Invocations :
              (Allocated(j) /\ argv_base[j] = B) => ports[j] = ports[i]

\* C3 witness: two invocations with base port 4000 on a host with no
\* listening port have both been given ports, analytics on 7000.
C3_Witness ==
  \E i, j \in Invocations :
    /\ i # j /\ Allocated(i) /\ Allocated(j)
    /\ argv_base[i] = 4000 /\ argv_base[j] = 4000 /\ occupied = {}
    /\ ports[i]["analytics"] = 7000 /\ ports[j]["kong_https"] = 4443

\* C4: an invocation constructed while the project directory exists fails
\* with FileExistsError and changes nothing on the filesystem.
C4_ExistingDirectoryFailsAlreadyExists ==
  \A i \in Invocations :
    existed[i] =>
      /\ oplog[i] = <<>>
      /\ pc[i] \in {"input", "calc_ports", "probe", "check_exists", "failed"}
      /\ pc[i] = "failed" => err[i] = "FileExistsError"

\* C5: when the project directory exists, FileExistsError is raised before
\* any prompt is issued and before any port is probed.
C5_ExistenceCheckedBeforeOtherWork ==
  \A i \in Invocations :
    (existed[i] /\ pc[i] = "failed" /\ err[i] = "FileExistsError") =>
      (prompts[i] = 0 /\ probes[i] = 0)

\* C6: an invocation started after another one has constructed the project
\* (and perhaps run) fails with FileExistsError and changes no file.
C6_SecondInvocationFailsAlreadyExists ==
  \A i, j \in Invocations :
    (i # j /\ pc[j] # "start" /\ entry_pc[j][i] \in {"constructed", "done"}) =>
      /\ oplog[j] = <<>>
      /\ pc[j] \in {"input", "calc_ports", "probe", "check_exists", "failed"}
      /\ pc[j] = "failed" => err[j] = "FileExistsError"

\* C7 as claimed: no change is made to the filesystem before every template
\* has been rendered.
C7_NoSideEffectBeforeAllContent ==
  \A i \in Invocations : oplog[i] # <<>> => Rendered(i)

\* C7 as amended: the first change is the creation of the project
\* directory; every other change (a subdirectory, a removal, a write) comes
\* after all templates are rendered; the template set keeps the log-pipeline
\* template with its placeholders, and vector.yml is written after
\* docker-compose.yml, .env, kong.yml and the override file.
C7_TemplatesRenderedBeforeAnyWrite ==
  \A i \in Invocations :
    /\ oplog[i] # <<>> => oplog[i][1] = Op("mkdir", ".")
    /\ Len(oplog[i]) > 1 => Rendered(i)
    /\ Rendered(i) => templates[i]["vector"] = VectorTemplate(vector_file)
    /\ Did(i, Op("write", VectorYml)) =>
         \A p \in {ComposeYml, EnvFile, KongYml, OverrideYml} : Did(i, Op("write", p))

\* C7 witness: run() has written vector.yml from rendered templates.
C7_Witness ==
  \E i \in Invocations :
    /\ Rendered(i) /\ Did(i, Op("write", VectorYml))
    /\ fs[VectorYml].kind = "file"
    /\ fs[VectorYml].content # templates[i]["vector"]

\* a regular file lay at a required directory path when run() started
FileInTheWay ==
  seeded /\ \E d \in DirPaths \ {"."} : external[d].kind = "file"

\* C8: when a regular file lies at a required directory path (or at a
\* segment of one), run() does not fail and ends with a directory at every
\* required path.
C8_FileInTheWayIsReplaced ==
  \A i \in Invocations :
    (FileInTheWay /\ oplog[i] # <<>>) =>
      /\ pc[i] # "failed"
      /\ pc[i] = "done" => \A d \in DirPaths : IsDir(fs, d)

\* C9: an index.ts that exists before run() is not written and keeps its
\* content.
C9_SeededIndexTsKept ==
  \A i \in Invocations :
    (seeded /\ external[IndexTs].kind = "file" /\ oplog[i] # <<>>) =>
      /\ ~Did(i, Op("write", IndexTs))
      /\ fs[IndexTs] = external[IndexTs]

\* C10: a file written by _write_with_unix_newlines (docker-compose.yml,
\* .env, kong.yml, pooler.exs, the SQL scripts) holds no CR LF pair, also
\* after the health-check patch.
C10_NoCrLfInSensitiveFiles ==
  \A i \in Invocations :
    \A p \in SensitivePaths :
      Did(i, Op("write", p)) => CrLfAt(fs[p].content) = {}

\* C11: after run() the manifest holds the unauthenticated status check in
\* place of the authenticated realtime health check, and is otherwise the
\* manifest run() wrote before the patch.
C11_HealthcheckPatchedRestUnchanged ==
  \A i \in Invocations :
    pc[i] = "done" =>
      LET before == UnixNewlineBytes(templates[i]["docker_compose"])
          after == fs[ComposeYml].content
      IN /\ ~Contains(after, OldHealthcheck)
         /\ Contains(after, NewHealthcheck)
         /\ after = Replace(before, OldHealthcheck, NewHealthcheck)

\* the number of times invocation i has written path p
Writes(i, p) ==
  Cardinality({k \in 1..Len(oplog[i]) : oplog[i][k] = Op("write", p)})

\* C12: when the bytes of docker-compose.yml do not contain the expected
\* health-check block as an exact substring, _fix_realtime_healthcheck
\* raises nothing, writes nothing and leaves the file as it is, and run()
\* returns.
C12_MissingBlockSkipsPatch ==
  [][\A i \in Invocations :
       (/\ pc[i] = "fix" /\ pc'[i] # "fix"
        /\ fs[ComposeYml].kind = "file"
        /\ ~Contains(fs[ComposeYml].content, OldHealthcheck))
         => (pc'[i] = "done" /\ err'[i] = "none" /\ fs' = fs /\ oplog' = oplog)]_vars

\* C13: _extract_env_value returns the values the rendered .env carries for
\* ANON_KEY, SERVICE_ROLE_KEY, DASHBOARD_USERNAME and DASHBOARD_PASSWORD
\* (the project name) unchanged, and kong.yml is rendered with them.
C13_EnvValuesRoundTrip ==
  \A i \in Invocations :
    Rendered(i) =>
      LET env == templates[i]["env"]
          kong == templates[i]["kong"]
      IN /\ ExtractEnvValue(env, "ANON_KEY") = <<AnonKeyDemo>>
         /\ ExtractEnvValue(env, "SERVICE_ROLE_KEY") = <<ServiceRoleKeyDemo>>
         /\ ExtractEnvValue(env, "DASHBOARD_USERNAME") = <<"supabase">>
         /\ ExtractEnvValue(env, "DASHBOARD_PASSWORD") = project_name
         /\ Contains(kong, <<"      - key: ", AnonKeyDemo, LF>>)
         /\ Contains(kong, <<"      - key: ", ServiceRoleKeyDemo, LF>>)
         /\ Contains(kong, <<"    username: ", "supabase", LF>>)
         /\ Contains(kong, <<"    password: ">> \o project_name \o <<LF, "services:">>)

\* the substitution placeholders of the templates
Placeholders ==
  {"{self.project_name}", "__PROJECT__", "__ANALYTICS_SERVICE__", "__KONG_SERVICE__"}

\* the places of text s that still hold a placeholder
Unresolved(s) == {k \in 1..Len(s) : s[k] \in Placeholders}

\* C14: no file written by run() holds an unresolved placeholder, and the
\* db_host entry of pooler.exs is '<project_name>-db'.
C14_NoUnresolvedPlaceholder ==
  \A i \in Invocations :
    /\ \A p \in FilePaths :
         Did(i, Op("write", p)) => Unresolved(fs[p].content) = {}
    /\ Did(i, Op("write", PoolerExs)) =>
         Contains(fs[PoolerExs].content,
                  <<"  \"db_host\" => \"">> \o project_name \o <<"-", "db", "\",">>)

\* the last part of the host names the artifacts use
HostSuffixes ==
  {"studio", "kong", "auth", "rest", "realtime", "storage", "imgproxy", "meta",
   "edge-functions", "functions", "analytics", "db", "vector", "pooler", "mail"}

\* the host name that starts at place k of text s: it ends with "-" and a
\* suffix
HostAt(s, k) ==
  LET ends == {j \in k..(Len(s) - 1) : s[j] = "-" /\ s[j + 1] \in HostSuffixes}
  IN IF ends = {} THEN <<>>
     ELSE SelectSeq(SubSeq(s, k, Least(ends) + 1), LAMBDA c : c # "")

\* the host names that follow the text pre in text s
HostsAfter(s, pre) ==
  {HostAt(s, k + Len(pre)) : k \in {j \in 1..Len(s) : MatchAt(s, pre, j)}}

\* the container_name of every service of a manifest
ContainerNames(manifest) == HostsAfter(manifest, <<"    container_name: ">>)

\* the peer hosts kong.yml, .env, pooler.exs and vector.yml refer to
KongHosts(kong) == HostsAfter(kong, <<"    url: http://">>)
EnvHosts(env) ==
  HostsAfter(env, <<"POSTGRES_HOST", "=">>) \cup HostsAfter(env, <<"SMTP_HOST", "=">>)
PoolerHosts(pooler) == HostsAfter(pooler, <<"  \"db_host\" => \"">>)
VectorHosts(vector) == HostsAfter(vector, <<": '.appname == \"">>)

\* C15: every peer host that kong.yml, .env, pooler.exs and the routes of
\* vector.yml name is the container_name of a service of docker-compose.yml.
C15_PeerHostsAreContainerNames ==
  \A i \in Invocations :
    pc[i] = "done" =>
      LET names == ContainerNames(fs[ComposeYml].content)
      IN /\ KongHosts(fs[KongYml].content) \subseteq names
         /\ EnvHosts(fs[EnvFile].content) \subseteq names
         /\ PoolerHosts(fs[PoolerExs].content) \subseteq names
         /\ VectorHosts(fs[VectorYml].content) \subseteq names

\* the values of the 'origins' entries of a gateway configuration, n being
\* the length of a value
OriginsEntries(kong, n) ==
  {SubSeq(kong, k + 1, k + n + 1) : k \in {j \in 1..Len(kong) : kong[j] = "            - "}}

\* C16: the CORS origin is set by the prompts and not changed afterwards;
\* it is '"*"' exactly when the first answer, trimmed and upper-cased, is Y,
\* and otherwise the quoted protocol and domain, the protocol ending with
\* '://'; each of the ten origins entries of kong.yml is that value.
C16_CorsOriginDecidedOnce ==
  /\ [][\A i \in Invocations :
          cors_origins_config'[i] # cors_origins_config[i] =>
            pc[i] = "input" /\ pc'[i] = "calc_ports"]_vars
  /\ [](\A i \in Invocations :
          (pc[i] \notin {"start", "input"} /\ err[i] # "EOFError") =>
            LET a == answers[i]
                yes == Upper(Strip(a[1])) = <<"Y">>
                p == Strip(a[2])
                protocol == IF EndsWith(p, <<"://">>) THEN p ELSE p \o <<"://">>
                cors == cors_origins_config[i]
            IN /\ yes <=> cors = <<"\"*\"">>
               /\ ~yes => /\ cors = <<"\"">> \o protocol \o Strip(a[3]) \o <<"\"">>
                          /\ EndsWith(protocol, <<"://">>)
                          /\ ~EndsWith(protocol, <<"://", "://">>))
  /\ [](\A i \in Invocations :
          Did(i, Op("write", KongYml)) =>
            LET kong == fs[KongYml].content
                cors == cors_origins_config[i]
            IN /\ OriginsEntries(kong, Len(cors)) = {cors \o <<LF>>}
               /\ Cardinality({k \in 1..Len(kong) : kong[k] = "            - "}) = 10
               /\ Cardinality({k \in 1..Len(kong) : kong[k] = "      - name: cors"}) = 10)

\* C16 witness: run() has returned for a custom domain typed with blanks
\* around it and a protocol typed without '://'.
C16_Witness ==
  \E i \in Invocations :
    /\ pc[i] = "done"
    /\ cors_origins_config[i] = <<"\"", "https", "://", "example.com", "\"">>
    /\ Contains(fs[KongYml].content,
                <<"            - ", "\"", "https", "://", "example.com", "\"", LF>>)

\* a route of the fallback log-pipeline config of project pn
RouteFor(pn, service) ==
  <<"      ", service, ": '.appname == \"">> \o pn \o <<"-", service, "\"'">>

\* the fallback log-pipeline config of project pn, as text
VectorFallbackFor(pn) ==
  JoinLines(
    << <<"# Default Vector configuration for Supabase">>,
       <<"sources:">>,
       <<"  docker_host:">>,
       <<"      - ">> \o pn \o <<"-vector # Exclude vector logs from being ingested by itself">>,
       <<"transforms:">>,
       <<"      .project = \"">> \o pn \o <<"\"">>,
       <<"  router:">>,
       <<"    route:">>,
       RouteFor(pn, "kong"), RouteFor(pn, "auth"), RouteFor(pn, "rest"),
       RouteFor(pn, "realtime"), RouteFor(pn, "storage"),
       RouteFor(pn, "functions"), RouteFor(pn, "db"),
       <<"sinks:">>,
       <<"  analytics:">>,
       <<"    uri: http://">> \o pn \o <<"-", "analytics", ":4000/api/logs">>,
       <<"      token: \"${LOGFLARE_API_KEY}\"">>,
       <<"        Content-Type: application/json">> >>)

\* C17: with no vector.yml next to the script, run() does not fail on
\* account of it and writes, in text mode, the embedded fallback body with
\* the project name in every route and in the analytics sink.
C17_AbsentVectorFileFallsBack ==
  \A i \in Invocations :
    vector_file = Absent =>
      /\ Rendered(i) => templates[i]["vector"] # VectorMinimal
      /\ (~seeded /\ oplog[i] # <<>>) => pc[i] # "failed"
      /\ Did(i, Op("write", VectorYml)) =>
           /\ fs[VectorYml].kind = "file"
           /\ fs[VectorYml].content =
                TextModeBytes(VectorFallbackFor(project_name), os_linesep)
           /\ Unresolved(fs[VectorYml].content) = {}

\* C17 witness: run() has returned for project demo with no vector.yml next
\* to the script, and vector.yml routes the logs of demo-functions.
C17_Witness ==
  \E i \in Invocations :
    /\ pc[i] = "done" /\ vector_file = Absent /\ project_name = NamePlain
    /\ Contains(fs[VectorYml].content,
                <<"      ", "functions", ": '.appname == \"", "demo", "-", "functions", "\"'">>)
    /\ Contains(fs[VectorYml].content,
                <<"    uri: http://", "demo", "-", "analytics", ":4000/api/logs">>)

\* where an invocation stands while it is inside run()
RunPcs == {"constructed", "subdirs", "main_dir", "sample", "write", "fix"}

\* the bytes the k-th write of run() gives its file
Given(i, k) ==
  LET w == WritePlan(templates[i], project_name, k)
  IN IF w.unix THEN UnixNewlineBytes(w.content)
     ELSE TextModeBytes(w.content, os_linesep)

\* invocation i has made change a and, later, change b
DidBefore(i, a, b) ==
  \E k1, k2 \in 1..Len(oplog[i]) : k1 < k2 /\ oplog[i][k1] = a /\ oplog[i][k2] = b

\* C18: a step of run() that fails ends the invocation with the error and
\* changes nothing; the invocation makes no change afterwards; and every
\* directory it made and every file it wrote is on disk with the content
\* it was given last.
C18_NoRollbackOnFailure ==
  /\ [][\A i \in Invocations :
          /\ (pc[i] \in RunPcs /\ pc'[i] = "failed") =>
               (err'[i] # "none" /\ fs' = fs /\ oplog'[i] = oplog[i])
          /\ pc[i] = "failed" =>
               (pc'[i] = "failed" /\ err'[i] = err[i] /\ oplog'[i] = oplog[i])]_vars
  /\ [](\A i \in Invocations :
          (pc[i] = "failed" /\ oplog[i] # <<>>) =>
            /\ \A p \in DirPaths : Did(i, Op("mkdir", p)) => IsDir(fs, p)
            /\ \A k \in 1..NumWrites :
                 LET p == WritePlan(templates[i], project_name, k).path
                 IN (p # IndexTs /\ Did(i, Op("write", p))) => fs[p] = File(Given(i, k))
            /\ Did(i, Op("write", IndexTs)) =>
                 fs[IndexTs] =
                   File(IF DidBefore(i, Op("write", PoolerExs), Op("write", IndexTs))
                        THEN Given(i, 14)
                        ELSE TextModeBytes(SampleFunction, os_linesep)))

\* C18 witness: run() failed on volumes/logs/vector.yml, a directory, after
\* it had written docker-compose.yml, .env, kong.yml and the override file,
\* which are on disk.
C18_Witness ==
  \E i \in Invocations :
    /\ pc[i] = "failed" /\ err[i] = "IsADirectoryError"
    /\ fs[VectorYml].kind = "dir"
    /\ Did(i, Op("write", OverrideYml)) /\ ~Did(i, Op("write", PoolerExs))
    /\ fs[KongYml] = File(Given(i, 3))

\* the files of the generated layout
LayoutFiles ==
  {"docker-compose.yml", "docker-compose.override.yml", ".env", "README.md",
   "reset.sh", "volumes/api/kong.yml", "volumes/db/_supabase.sql",
   "volumes/db/logs.sql", "volumes/db/jwt.sql", "volumes/db/pooler.sql",
   "volumes/db/realtime.sql", "volumes/db/roles.sql", "volumes/db/webhooks.sql",
   "volumes/functions/main/index.ts", "volumes/logs/vector.yml",
   "volumes/pooler/pooler.exs"}

\* C19: after a run() that returned, every file of the layout is a file and
\* volumes/db/data, volumes/storage and volumes/analytics are directories;
\* a file is on disk only inside a directory, and an invocation that
\* started on an absent path and found nothing placed there writes a file
\* only after it has made the directory that contains it, by name or as
\* the parent of a directory it made.
C19_LayoutCompleteDirectoriesFirst ==
  \A i \in Invocations :
    /\ pc[i] = "done" =>
         /\ \A p \in LayoutFiles : fs[p].kind = "file"
         /\ \A d \in {"volumes/db/data", "volumes/storage", "volumes/analytics"} :
              IsDir(fs, d)
    /\ \A p \in LayoutFiles : fs[p].kind = "file" => IsDir(fs, Parent(p))
    /\ ~seeded =>
         \A k \in 1..Len(oplog[i]) :
           oplog[i][k].op = "write" =>
             \E j \in 1..(k - 1) :
               /\ oplog[i][j].op = "mkdir"
               /\ Parent(oplog[i][k].path) \in
                    {oplog[i][j].path} \cup Ancestors(oplog[i][j].path)

\* C19 witness: run() has returned on a path that was absent and where
\* nothing was placed; README.md, written last, is there.
C19_Witness ==
  \E i \in Invocations :
    /\ pc[i] = "done" /\ ~seeded /\ ~existed[i]
    /\ fs["README.md"].kind = "file"
    /\ IsDir(fs, "volumes/db/data")
    /\ Writes(i, ComposeYml) = 2

\* the value the lines ls of a .env give key is n characters of the alphabet
SecretOk(ls, key, n) ==
  LET v == ExtractFrom(ls, key)
  IN Len(v) = n /\ \A k \in 1..Len(v) : v[k] \in Alphabet

\* C20: in the rendered and in the written .env, POSTGRES_PASSWORD has 32,
\* JWT_SECRET 48, SECRET_KEY_BASE 64, VAULT_ENC_KEY 32 and LOGFLARE_API_KEY
\* 32 characters, all of the 62 letters and digits.
C20_SecretLengthsAndAlphabet ==
  /\ Cardinality(Alphabet) = 62
  /\ \A i \in Invocations :
       \A env \in (IF Rendered(i) THEN {templates[i]["env"]} ELSE {})
                    \cup (IF Did(i, Op("write", EnvFile)) THEN {fs[EnvFile].content} ELSE {}) :
         LET ls == SplitLines(env)
         IN /\ SecretOk(ls, "POSTGRES_PASSWORD", 32)
            /\ SecretOk(ls, "JWT_SECRET", 48)
            /\ SecretOk(ls, "SECRET_KEY_BASE", 64)
            /\ SecretOk(ls, "VAULT_ENC_KEY", 32)
            /\ SecretOk(ls, "LOGFLARE_API_KEY", 32)

\* C20 witness: run() has written a .env whose JWT_SECRET is 48 times the
\* character Z.
C20_Witness ==
  \E i \in Invocations :
    /\ rand_char[i] = "Z"
    /\ Did(i, Op("write", EnvFile))
    /\ ExtractEnvValue(fs[EnvFile].content, "JWT_SECRET") = [j \in 1..48 |-> "Z"]

\* C21: when the allocation of an invocation has returned, the port of each
\* service is the least port at or above its target that is not listening,
\* where the targets are base_port, base_port + 443, + 1000, + 1001, + 2000
\* and + 3000: the port itself is free and every port from the target up to
\* it is taken.
C21_EachPortLeastFreeFromTarget ==
  \A i \in Invocations :
    Allocated(i) =>
      LET target == [kong_http |-> base_port[i], kong_https |-> base_port[i] + 443,
                     postgres |-> base_port[i] + 1000, pooler |-> base_port[i] + 1001,
                     studio |-> base_port[i] + 2000, analytics |-> base_port[i] + 3000]
      IN \A s \in Services :
           /\ ports[i][s] >= target[s]
           /\ ports[i][s] \notin occupied
           /\ \A q \in target[s]..(ports[i][s] - 1) : q \in occupied

\* C21 witness: with the base port and the port after it listening, kong_http
\* was given the second port after its target while kong_https, whose target
\* is free, was given base_port + 443.
C21_Witness ==
  \E i \in Invocations :
    /\ Allocated(i)
    /\ {base_port[i], base_port[i] + 1} \subseteq occupied
    /\ ports[i]["kong_http"] = base_port[i] + 2
    /\ ports[i]["kong_https"] = base_port[i] + 443

\* C22: when no base port was supplied, the resolved base_port is the first
\* free port at or above the seed drawn from 3000..9000: it is at least 3000
\* and at least the seed, it is not listening, and every port from the seed
\* up to it is.  The six targets come from the resolved base: kong_http is
\* the base itself and every other service has a port at or above the base
\* plus its offset, equal to it when that port is free.
C22_RandomBaseIsFirstFreeFromSeed ==
  \A i \in Invocations :
    (argv_base[i] = NoPort /\ base_port[i] # NoPort) =>
      /\ rand_int[i] \in 3000..9000
      /\ base_port[i] >= 3000
      /\ base_port[i] >= rand_int[i]
      /\ base_port[i] \notin occupied
      /\ \A q \in rand_int[i]..(base_port[i] - 1) : q \in occupied
      /\ Allocated(i) =>
           /\ ports[i]["kong_http"] = base_port[i]
           /\ \A k \in 2..6 :
                LET t == base_port[i] + <<0, 443, 1000, 1001, 2000, 3000>>[k]
                IN /\ ports[i][ServiceOrder[k]] >= t
                   /\ t \notin occupied => ports[i][ServiceOrder[k]] = t

\* C22 witness: no base port given, the seed 3000 and the port after it are
\* listening: the base was resolved to 3002 and analytics was given 6002.
C22_Witness ==
  \E i \in Invocations :
    /\ argv_base[i] = NoPort
    /\ rand_int[i] = 3000
    /\ {3000, 3001} \subseteq occupied
    /\ Allocated(i)
    /\ base_port[i] = 3002
    /\ ports[i]["analytics"] = 6002

\* C23: a call of _extract_env_value returns, for every key and
\* every content of the env template, the text after the first "=" of the
\* first line that starts with "<key>=", and the sentinel "missing_<key>"
\* exactly when no line starts with "<key>=".
C23_ExtractGivesTextAfterFirstEquals ==
  extracted # NoCall =>
    LET t == templates[extracted.inv]
        ls == SplitLines(IF "env" \in DOMAIN t THEN t["env"] ELSE <<>>)
        hits == {k \in 1..Len(ls) : StartsWithKey(ls[k], extracted.key)}
    IN /\ extracted.value = <<"missing_", extracted.key>> <=> hits = {}
       /\ hits # {} =>
            extracted.value = SubSeq(ls[Least(hits)], 3, Len(ls[Least(hits)]))

\* C24: loading the log-pipeline template leaves a template in place, and
\* when the vector.yml next to the script could not be loaded, missing or
\* unreadable alike, the template is the first of the two embedded bodies in
\* the fallback order, the richer one; the minimal body stands in only where
\* the richer one could not, and the richer one is a constant of the program.
C24_FallbackTakesRicherDefaultFirst ==
  \A i \in Invocations :
    Rendered(i) =>
      /\ "vector" \in DOMAIN templates[i]
      /\ vector_file.kind = "file" =>
           templates[i]["vector"] = UniversalNewlines(vector_file.content)
      /\ vector_file.kind # "file" => templates[i]["vector"] = VectorDefault

\* C25: every variable the manifest references as ${NAME}, and each of the
\* four keys the gateway renderer extracts, has a "NAME=" line in the env
\* template, so the gateway template holds no "missing_<KEY>" sentinel; and
\* the same holds of docker-compose.yml, .env and kong.yml once run() has
\* returned.
C25_ReferencedVariablesDefinedInEnv ==
  LET Refs(t) == {t[k + 1] : k \in {j \in 1..(Len(t) - 2) : t[j] = "${" /\ t[j + 2] = "}"}}
      KongKeys == {"ANON_KEY", "SERVICE_ROLE_KEY", "DASHBOARD_USERNAME", "DASHBOARD_PASSWORD"}
      Covered(manifest, env, kong) ==
        LET ls == SplitLines(env)
        IN /\ \A name \in Refs(manifest) \cup KongKeys :
                \E k \in 1..Len(ls) : StartsWithKey(ls[k], name)
           /\ \A k \in 1..Len(kong) : kong[k] # "missing_"
  IN \A i \in Invocations :
       /\ Rendered(i) =>
            Covered(templates[i]["docker_compose"], templates[i]["env"],
                    templates[i]["kong"])
       /\ pc[i] = "done" =>
            Covered(fs[ComposeYml].content, fs[EnvFile].content, fs[KongYml].content)

\* C25 witness: run() has returned, docker-compose.yml references
\* ${POOLER_TENANT_ID} and ${DASHBOARD_PASSWORD}, .env defines both, and
\* kong.yml carries the dashboard password demo.
C25_Witness ==
  \E i \in Invocations :
    /\ pc[i] = "done"
    /\ project_name = <<"demo">>
    /\ Contains(fs[ComposeYml].content, <<"      POOLER_TENANT_ID: ", "${", "POOLER_TENANT_ID", "}">>)
    /\ Contains(fs[ComposeYml].content, <<"${", "DASHBOARD_PASSWORD", "}">>)
    /\ Contains(fs[EnvFile].content, <<LF, "POOLER_TENANT_ID", "=", "your-tenant-id", LF>>)
    /\ Contains(fs[EnvFile].content, <<LF, "DASHBOARD_PASSWORD", "=", "demo", LF>>)
    /\ Contains(fs[KongYml].content, <<"    password: ", "demo", LF>>)

\* C26: once the constructor has returned, no step changes project_name,
\* base_port, ports, cors_origins_config or any entry of the template set of
\* that object, and while run() is at work or has returned every template is
\* in place and the ports are the allocator's.
C26_ConfigurationFixedAfterConstruction ==
  /\ [][\A i \in Invocations :
          pc[i] \in RunPcs \cup {"done", "failed"} /\ Rendered(i) =>
            /\ project_name' = project_name
            /\ base_port'[i] = base_port[i]
            /\ ports'[i] = ports[i]
            /\ cors_origins_config'[i] = cors_origins_config[i]
            /\ \A key \in TemplateKeys : templates'[i][key] = templates[i][key]]_vars
  /\ [](\A i \in Invocations :
          pc[i] \in RunPcs \cup {"done"} =>
            /\ Rendered(i)
            /\ Allocated(i)
            /\ cors_origins_config[i] # <<>>)

\* C26 witness: run() has returned after patching docker-compose.yml on disk,
\* and the manifest template in memory still holds the old health check.
C26_Witness ==
  \E i \in Invocations :
    /\ pc[i] = "done"
    /\ ~Contains(fs[ComposeYml].content, OldHealthcheck)
    /\ Contains(fs[ComposeYml].content, NewHealthcheck)
    /\ Contains(templates[i]["docker_compose"], OldHealthcheck)
    /\ ports[i]["kong_http"] = base_port[i]

\* C27: when run() has returned, the host port of each service is the same
\* in every artifact and is the allocator's: the port lines of
\* docker-compose.yml are the six lines "<port>:<container port>" of kong
\* (http and https), db, pooler, studio and analytics; .env gives
\* KONG_HTTP_PORT, KONG_HTTPS_PORT, POSTGRES_PORT,
\* POOLER_PROXY_PORT_TRANSACTION and STUDIO_PORT those ports and SITE_URL,
\* API_EXTERNAL_URL and SUPABASE_PUBLIC_URL the ports of studio, kong and
\* kong; the port list of the README names the same six ports.
C27_SamePortInEveryArtifact ==
  \A i \in Invocations :
    pc[i] = "done" =>
      LET p == ports[i]
          manifest == SplitLines(fs[ComposeYml].content)
          env == SplitLines(fs[EnvFile].content)
          readme == SplitLines(fs["README.md"].content)
          Published(q, inner) == <<"      - \"">> \o Digits(q) \o <<":", inner, "\"">>
          Listed(label, q) == <<"- ", label, ": ">> \o Digits(q)
          Url(q) == <<"http://localhost:">> \o Digits(q)
      IN /\ {manifest[k] : k \in {j \in 1..Len(manifest) :
                                    manifest[j] # <<>> /\ manifest[j][1] = "      - \""}}
              = {Published(p["studio"], "3000"), Published(p["kong_http"], "8000/tcp"),
                 Published(p["kong_https"], "8443/tcp"), Published(p["analytics"], "4000"),
                 Published(p["postgres"], "5432"), Published(p["pooler"], "6543")}
         /\ ExtractFrom(env, "KONG_HTTP_PORT") = Digits(p["kong_http"])
         /\ ExtractFrom(env, "KONG_HTTPS_PORT") = Digits(p["kong_https"])
         /\ ExtractFrom(env, "POSTGRES_PORT") = Digits(p["postgres"])
         /\ ExtractFrom(env, "POOLER_PROXY_PORT_TRANSACTION") = Digits(p["pooler"])
         /\ ExtractFrom(env, "STUDIO_PORT") = Digits(p["studio"])
         /\ ExtractFrom(env, "SITE_URL") = Url(p["studio"])
         /\ ExtractFrom(env, "API_EXTERNAL_URL") = Url(p["kong_http"])
         /\ ExtractFrom(env, "SUPABASE_PUBLIC_URL") = Url(p["kong_http"])
         /\ {readme[k] : k \in {j \in 1..Len(readme) :
                                  readme[j] # <<>> /\ readme[j][1] = "- "}}
              = {Listed("Kong HTTP API", p["kong_http"]),
                 Listed("Kong HTTPS API", p["kong_https"]),
                 Listed("PostgreSQL", p["postgres"]),
                 Listed("Pooler (Connection Pooler)", p["pooler"]),
                 Listed("Studio Dashboard", p["studio"]),
                 Listed("Analytics", p["analytics"])}

\* C27 witness: base port 4000 with port 5000 listening; run() has returned
\* and db is on 5001 in docker-compose.yml, in .env and in the README.
C27_Witness ==
  \E i \in Invocations :
    /\ pc[i] = "done"
    /\ occupied = {5000}
    /\ ports[i]["postgres"] = 5001
    /\ Contains(fs[ComposeYml].content, <<"      - \"", "5", "0", "0", "1", ":", "5432", "\"", LF>>)
    /\ Contains(fs[EnvFile].content, <<LF, "POSTGRES_PORT", "=", "5", "0", "0", "1", LF>>)
    /\ Contains(fs["README.md"].content, <<"- ", "PostgreSQL", ": ", "5", "0", "0", "1">>)

\* C28: of two invocations that entered __init__ while the project directory
\* was absent, at most one gets past _create_project_directory, whatever the
\* order of their steps: the other changes nothing on disk and stays at or
\* before the creation, and its call of _create_project_directory, made at
\* the existence check or at the mkdir once the directory is there, ends the
\* invocation with FileExistsError.
C28_AtMostOneInvocationCreatesDirectory ==
  /\ [](\A i, j \in Invocations :
          (i # j /\ ~existed[i] /\ ~existed[j] /\ oplog[j] # <<>>) =>
            /\ oplog[i] = <<>>
            /\ pc[i] \in {"start", "input", "calc_ports", "probe", "check_exists",
                         "mkdir", "failed"}
            /\ (pc[i] = "failed" /\ Allocated(i)) => err[i] = "FileExistsError")
  /\ [][\A i \in Invocations :
          (pc[i] \in {"check_exists", "mkdir"} /\ PathExists(fs, ".") /\ pc'[i] # pc[i]) =>
            /\ pc'[i] = "failed"
            /\ err'[i] = "FileExistsError"
            /\ fs' = fs]_vars

\* C28 witness: both invocations found the directory absent; one has created
\* it and gone on to write, the other has passed the existence check and is
\* at the mkdir, which can only fail.
C28_Witness ==
  \E i, j \in Invocations :
    /\ i # j
    /\ ~existed[i] /\ ~existed[j]
    /\ pc[i] = "mkdir"
    /\ pc[j] \in {"write", "fix", "done"}
    /\ Len(oplog[j]) > 1
    /\ fs["."].kind = "dir"

\* C29: no step changes the set of listening ports, a step of the port
\* allocation least of all, so an allocation that returns gives the ports it
\* would give on a host where nothing was allocated before: two invocations
\* whose base port is the same are given the same six ports.
C29_AllocationReservesNothing ==
  /\ [][occupied' = occupied]_vars
  /\ [](\A i, j \in Invocations :
          (Allocated(i) /\ Allocated(j) /\ base_port[i] = base_port[j]) =>
            \A s \in Services : ports[i][s] = ports[j][s])

\* C29 witness: two invocations with base port 4000 on a host where 5000 is
\* listening have both been given ports, one after the other, and both have
\* kong on 4000 and db on 5001.
C29_Witness ==
  /\ occupied = {5000}
  /\ \A i \in Invocations :
       /\ Allocated(i)
       /\ argv_base[i] = 4000
       /\ ports[i]["kong_http"] = 4000
       /\ ports[i]["postgres"] = 5001
  /\ \E i, j \in Invocations :
       i # j /\ entry_pc[i][j] \notin {"start", "input", "calc_ports", "probe"}

\* C30: a run is compared with the run that has the same project name, ports,
\* secrets and host and was given another answer at the prompts (the origin
\* https://other.test).  When the constructor has returned, every template
\* but the gateway's is the same in the two, and the gateway templates have
\* the same lines except for the entries below "origins:".  When run() has
\* written its files, every file but kong.yml has the bytes the other run
\* gives it, and SITE_URL, API_EXTERNAL_URL and SUPABASE_PUBLIC_URL of .env
\* are http://localhost:<port> whatever was answered.
C30_AnswersReachOnlyGatewayOrigins ==
  \A i \in Invocations :
    pc[i] \in {"constructed", "fix"} =>
      LET other == InitializeTemplates(project_name, ports[i],
                                       <<"\"", "https://", "other.test", "\"">>,
                                       rand_char[i], vector_file)
          mine == SplitLines(templates[i]["kong"])
          theirs == SplitLines(other["kong"])
          env == SplitLines(fs[EnvFile].content)
      IN /\ \A key \in TemplateKeys \ {"kong"} : templates[i][key] = other[key]
         /\ Len(mine) = Len(theirs)
         /\ \A k \in 1..Len(mine) :
              mine[k] # theirs[k] =>
                /\ k > 1 /\ mine[k - 1] = <<"          origins:">>
                /\ mine[k] = <<"            - ">> \o cors_origins_config[i]
                /\ theirs[k][1] = "            - "
         /\ pc[i] = "fix" =>
              /\ \A k \in (1..NumWrites) \ {3} :
                   LET w == WritePlan(other, project_name, k)
                   IN fs[w.path].content =
                        IF w.unix THEN UnixNewlineBytes(w.content)
                        ELSE TextModeBytes(w.content, os_linesep)
              /\ ExtractFrom(env, "SITE_URL")
                   = <<"http://localhost:">> \o Digits(ports[i]["studio"])
              /\ ExtractFrom(env, "API_EXTERNAL_URL")
                   = <<"http://localhost:">> \o Digits(ports[i]["kong_http"])
              /\ ExtractFrom(env, "SUPABASE_PUBLIC_URL")
                   = <<"http://localhost:">> \o Digits(ports[i]["kong_http"])

\* C30 witness: the custom domain https://example.com was answered, run() has
\* written its files, kong.yml carries that origin and .env has SITE_URL on
\* localhost.
C30_Witness ==
  \E i \in Invocations :
    /\ pc[i] = "fix"
    /\ cors_origins_config[i] = <<"\"", "https", "://", "example.com", "\"">>
    /\ Contains(fs[KongYml].content,
                <<"          origins:", LF, "            - ", "\"", "https", "://", "example.com", "\"">>)
    /\ Contains(fs[EnvFile].content, <<LF, "SITE_URL", "=", "http://localhost:", "6", "0", "0", "0", LF>>)
    /\ \A k \in 1..Len(fs[EnvFile].content) : fs[EnvFile].content[k] # "example.com"

====
